---- MODULE Spec2Model ----
(***************************************************************************)
(* A model of the correlated-signal kernels of                             *)
(* sofia_redux/scan/signal/signal_numba_functions.py.                      *)
(*                                                                         *)
(* Arrays are functions on 0-based index ranges, as in the source.  A      *)
(* float is an exact rational [n, d] with d > 0, or NaN (d = 0, n = 0), or *)
(* the marker ZeroDiv (d = 0, n = 1) for the ZeroDivisionError a compiled  *)
(* kernel raises on x / 0.                                                 *)
(*                                                                         *)
(* The block kernels loop over range(start_frame, start_frame+resolution)  *)
(* without clamping to n_frames.  The kernels are compiled without bounds  *)
(* checks, so an index >= n_frames reads (or writes) the memory that       *)
(* follows the array.  The model gives every per-frame array               *)
(* n_blocks * resolution rows: rows 0 .. n_frames-1 are the array, the     *)
(* rows from n_frames on are the memory behind it, with arbitrary content. *)
(***************************************************************************)
EXTENDS Integers, Sequences, FiniteSets, TLC

VARIABLES
    n_frames,           \* frame_data.shape[0]
    resolution,         \* the resolution argument, as passed
    frame_data,         \* [row -> [channel -> float]]
    frame_weights,      \* [row -> float]
    frame_valid,        \* [row -> BOOLEAN]
    modeling_frames,    \* [row -> BOOLEAN]
    sample_flags,       \* [row -> [channel -> Int]]
    frame_dependents,   \* [row -> float]
    channel_dependents, \* [channel -> float]
    channel_indices,    \* [0..n_channels-1 -> channel]
    channel_g,          \* [0..n_channels-1 -> float]   gains
    channel_w,          \* [0..n_channels-1 -> float]   weights
    channel_f,          \* [0..n_channels-1 -> float]   source filtering
    signal_values,      \* [block -> float]
    signal_weights,     \* [block -> float]
    call,               \* the last kernel call: its name, arguments and returned arrays
    pre,                \* the arrays as they were when the last call started
    past,               \* the earlier calls, oldest first: [call, pre] records
    n_calls,            \* number of kernel calls made so far
    drifts,             \* [0..n_drifts-1 -> float]    accumulated drift levels
    atran_cache,        \* getatran.__atran_cache: [key -> [modtime -> data]]
    files               \* the files on disk: [path -> [good, mtime, data]]

vars == <<n_frames, resolution, frame_data, frame_weights, frame_valid,
          modeling_frames, sample_flags, frame_dependents, channel_dependents,
          channel_indices, channel_g, channel_w, channel_f, signal_values,
          signal_weights, call, pre, past, n_calls, drifts, atran_cache, files>>

inputs == <<n_frames, resolution, frame_weights, frame_valid, modeling_frames,
            sample_flags, channel_indices, channel_g, channel_w, channel_f>>

\* the state the frame kernels neither read nor write
outside == <<drifts, atran_cache, files>>

----------------------------------------------------------------------------
(* Bounds *)
MaxFrames == 3
MaxResolution == 2
MaxCalls == 2

Channels == {0, 1}

----------------------------------------------------------------------------
(* float64 arithmetic *)
NaN == [n |-> 0, d |-> 0]
ZeroDiv == [n |-> 1, d |-> 0]

Abs(x) == IF x < 0 THEN -x ELSE x

RECURSIVE Gcd(_, _)
Gcd(a, b) == IF b = 0 THEN a ELSE Gcd(b, a % b)

Norm(n, d) ==
    LET s == IF d < 0 THEN -1 ELSE 1
        g == Gcd(Abs(n), Abs(d))
    IN  [n |-> (s * n) \div g, d |-> (s * d) \div g]

R(i) == [n |-> i, d |-> 1]
Zero == R(0)
One == R(1)

IsNaN(a) == a = NaN
IsFinite(a) == a.d # 0
\* the result of an operation one of whose operands is not finite
Bad(a, b) == IF a = ZeroDiv \/ b = ZeroDiv THEN ZeroDiv ELSE NaN

FAdd(a, b) == IF a.d = 0 \/ b.d = 0 THEN Bad(a, b)
              ELSE Norm(a.n * b.d + b.n * a.d, a.d * b.d)
FSub(a, b) == IF a.d = 0 \/ b.d = 0 THEN Bad(a, b)
              ELSE Norm(a.n * b.d - b.n * a.d, a.d * b.d)
FMul(a, b) == IF a.d = 0 \/ b.d = 0 THEN Bad(a, b)
              ELSE Norm(a.n * b.n, a.d * b.d)
FDiv(a, b) == IF a.d = 0 \/ b.d = 0 THEN Bad(a, b)
              ELSE IF b.n = 0 THEN ZeroDiv
              ELSE Norm(a.n * b.d, a.d * b.n)

\* comparisons: every comparison with NaN is false
FIsZero(a) == a.d # 0 /\ a.n = 0
FGt0(a) == a.d # 0 /\ a.n > 0
FLe0(a) == a.d # 0 /\ a.n <= 0
FLess(a, b) == a.d # 0 /\ b.d # 0 /\ a.n * b.d < b.n * a.d

\* a tuple as a 0-based array
ZSeq(s) == [i \in 0..(Len(s) - 1) |-> s[i + 1]]
Size(a) == Cardinality(DOMAIN a)

----------------------------------------------------------------------------
(* Block Aggregator *)

\* numba_functions.roundup_ratio(a, b) = ceil(a / b)
roundup_ratio(a, b) == (a + b - 1) \div b

\* "if resolution < 1: resolution = 1"
ClampResolution(r) == IF r < 1 THEN 1 ELSE r

Res == ClampResolution(resolution)
NBlocks == roundup_ratio(n_frames, Res)
Blocks == 0..(NBlocks - 1)
Rows == 0..(NBlocks * Res - 1)
Frames == 0..(n_frames - 1)
NChannels == Size(channel_indices)
Group == 0..(NChannels - 1)

\* the arrays the callers derive from gains and weights
channel_wg == [i \in Group |-> FMul(channel_w[i], channel_g[i])]
channel_wg2 == [i \in Group |-> FMul(channel_w[i], FMul(channel_g[i], channel_g[i]))]
channel_fwg2 == [i \in Group |-> FMul(channel_f[i], channel_wg2[i])]

----------------------------------------------------------------------------
(* Inputs *)

\* one row of the per-frame arrays
Profile(v, m, w, x0, x1, f0, f1) ==
    [valid |-> v, modeling |-> m, weight |-> R(w),
     data |-> ZSeq(<<R(x0), R(x1)>>), flags |-> ZSeq(<<f0, f1>>)]

InvalidFrame == Profile(FALSE, FALSE, 1, 5, 7, 0, 0)
ZeroWeightFrame == Profile(TRUE, FALSE, 0, 5, 7, 0, 0)
PlainFrame == Profile(TRUE, FALSE, 1, 1, 3, 0, 0)
HalfFlaggedFrame == Profile(TRUE, FALSE, 2, -2, 4, 0, 2)
AllFlaggedFrame == Profile(TRUE, FALSE, 1, 3, 1, 1, 1)
ModelingFrame == Profile(TRUE, TRUE, 1, 2, -1, 0, 1)

NegativeWeightFrame == Profile(TRUE, FALSE, -1, 4, 4, 0, 0)

CorrelatedProfiles ==
    {InvalidFrame, ZeroWeightFrame, PlainFrame, HalfFlaggedFrame, AllFlaggedFrame}

\* a channel of the group: its gain, its weight and its source filtering
Kind(g, w, f) == [g |-> R(g), w |-> R(w), f |-> R(f)]

ChannelKinds == {Kind(2, 1, 1), Kind(-1, 2, 1), Kind(0, 1, 1), Kind(1, 0, 1)}

\* channel_indices: a group of pairwise distinct channels
ChannelGroups ==
    {ZSeq(s) : s \in {t \in UNION {[1..k -> Channels] : k \in 1..Cardinality(Channels)} :
                        \A i, j \in DOMAIN t : i # j => t[i] # t[j]}}

NoCall == [op |-> "none"]

\* the arrays a kernel may update in place
arrays == <<frame_data, frame_dependents, channel_dependents, signal_values,
            signal_weights>>

Snapshot ==
    [frame_data |-> frame_data, frame_dependents |-> frame_dependents,
     channel_dependents |-> channel_dependents, signal_values |-> signal_values,
     signal_weights |-> signal_weights, drifts |-> drifts,
     atran_cache |-> atran_cache, files |-> files]

\* the arrays of n frames at a resolution of RS, rows drawn from the profiles
\* P (rows of the arrays) and G (the memory behind them), with a correlated
\* signal of earlier iterations that is v, 2v, 3v, ... for a v of SV
InitFrames(P, G, RS, SV) ==
    /\ n_frames \in 0..MaxFrames
    /\ resolution \in RS
    /\ \E rows \in [Rows -> P \cup G] :
        /\ \A f \in Rows : IF f < n_frames THEN rows[f] \in P ELSE rows[f] \in G
        /\ frame_data = [f \in Rows |-> rows[f].data]
        /\ frame_weights = [f \in Rows |-> rows[f].weight]
        /\ frame_valid = [f \in Rows |-> rows[f].valid]
        /\ modeling_frames = [f \in Rows |-> rows[f].modeling]
        /\ sample_flags = [f \in Rows |-> rows[f].flags]
    /\ frame_dependents = [f \in Rows |-> Zero]
    /\ channel_dependents = [c \in Channels |-> Zero]
    /\ signal_values \in {[b \in Blocks |-> R(v * (b + 1))] : v \in SV}
    /\ signal_weights = [b \in Blocks |-> Zero]
    /\ drifts = <<>>
    /\ atran_cache = <<>>
    /\ files = <<>>
    /\ call = NoCall
    /\ pre = Snapshot
    /\ past = <<>>
    /\ n_calls = 0

InitChannels(GS, K) ==
    /\ channel_indices \in GS
    /\ \E kinds \in [DOMAIN channel_indices -> K] :
        /\ channel_g = [i \in DOMAIN channel_indices |-> kinds[i].g]
        /\ channel_w = [i \in DOMAIN channel_indices |-> kinds[i].w]
        /\ channel_f = [i \in DOMAIN channel_indices |-> kinds[i].f]

----------------------------------------------------------------------------
(* Correlated-Signal Estimator *)

\* get_ml_correlated, the channel loop: acc is (sum_wv, sum_w)
RECURSIVE MLChannels(_, _, _, _)
MLChannels(frame_index, fw, i, acc) ==
    IF i >= NChannels THEN acc
    ELSE LET channel_index == channel_indices[i] IN
         IF sample_flags[frame_index][channel_index] # 0
         THEN MLChannels(frame_index, fw, i + 1, acc)
         ELSE MLChannels(frame_index, fw, i + 1,
                [sum_wv |-> FAdd(acc.sum_wv,
                                 FMul(FMul(fw, channel_wg[i]),
                                      frame_data[frame_index][channel_index])),
                 sum_w |-> FAdd(acc.sum_w, FMul(fw, channel_wg2[i]))])

\* get_ml_correlated, the frame loop over range(frame_index, end_frame)
RECURSIVE MLFrames(_, _, _)
MLFrames(frame_index, end_frame, acc) ==
    IF frame_index >= end_frame THEN acc
    ELSE IF ~frame_valid[frame_index] THEN MLFrames(frame_index + 1, end_frame, acc)
    ELSE LET fw == frame_weights[frame_index] IN
         IF FIsZero(fw) THEN MLFrames(frame_index + 1, end_frame, acc)
         ELSE MLFrames(frame_index + 1, end_frame,
                       MLChannels(frame_index, fw, 0, acc))

MLBlock(block) ==
    LET start_frame == block * Res
        end_frame == start_frame + Res
        s == MLFrames(start_frame, end_frame, [sum_wv |-> Zero, sum_w |-> Zero])
    IN  IF FIsZero(s.sum_w)
        THEN [value |-> Zero, weight |-> Zero]
        ELSE [value |-> FDiv(s.sum_wv, s.sum_w), weight |-> s.sum_w]

\* get_ml_correlated with n_frames // resolution blocks, as its docstring has it
get_ml_correlated_floor ==
    LET n_blocks == n_frames \div Res
        gain_increments == [block \in 0..(n_blocks - 1) |-> MLBlock(block).value]
        gain_increment_weights == [block \in 0..(n_blocks - 1) |-> MLBlock(block).weight]
    IN  [op |-> "get_ml_correlated",
         values |-> gain_increments, weights |-> gain_increment_weights]

get_ml_correlated ==
    LET n_blocks == roundup_ratio(n_frames, Res)
        gain_increments == [block \in 0..(n_blocks - 1) |-> MLBlock(block).value]
        gain_increment_weights == [block \in 0..(n_blocks - 1) |-> MLBlock(block).weight]
    IN  [op |-> "get_ml_correlated",
         values |-> gain_increments, weights |-> gain_increment_weights]

\* numba_functions.smart_median_1d on a buffer of [v, w] records
RECURSIVE BufSum(_, _)
BufSum(buf, weighted) ==
    IF buf = <<>> THEN Zero
    ELSE FAdd(IF weighted THEN FMul(buf[1].w, buf[1].v) ELSE buf[1].w,
              BufSum(Tail(buf), weighted))

BelowSum(buf, v) ==
    BufSum(SelectSeq(buf, LAMBDA e : ~FLess(v, e.v)), FALSE)

smart_median_1d(buf) ==
    LET total == BufSum(buf, FALSE)
        dominated == \E k \in DOMAIN buf : FLess(total, FMul(R(4), buf[k].w))
        reached == {k \in DOMAIN buf :
                       ~FLess(FMul(R(2), BelowSum(buf, buf[k].v)), total)}
        candidates == IF reached = {} THEN DOMAIN buf ELSE reached
        median == CHOOSE k \in candidates :
                     \A j \in candidates : ~FLess(buf[j].v, buf[k].v)
    IN  IF FIsZero(total) THEN [value |-> Zero, weight |-> Zero]
        ELSE IF dominated
        THEN [value |-> FDiv(BufSum(buf, TRUE), total), weight |-> total]
        ELSE [value |-> buf[median].v, weight |-> total]

\* get_robust_correlated, the channel loop: buf is buffer_values/buffer_weights[:n]
RECURSIVE RobustChannels(_, _, _, _)
RobustChannels(frame_index, fw, i, buf) ==
    IF i >= NChannels THEN buf
    ELSE LET channel_index == channel_indices[i]
             gain == channel_g[i]
         IN  IF FIsZero(gain) THEN RobustChannels(frame_index, fw, i + 1, buf)
             ELSE IF sample_flags[frame_index][channel_index] # 0
             THEN RobustChannels(frame_index, fw, i + 1, buf)
             ELSE RobustChannels(frame_index, fw, i + 1,
                    Append(buf, [v |-> FDiv(frame_data[frame_index][channel_index], gain),
                                 w |-> FMul(fw, channel_wg2[i])]))

RECURSIVE RobustFrames(_, _, _)
RobustFrames(frame_index, end_frame, buf) ==
    IF frame_index >= end_frame THEN buf
    ELSE IF ~frame_valid[frame_index] THEN RobustFrames(frame_index + 1, end_frame, buf)
    ELSE LET fw == frame_weights[frame_index] IN
         IF FIsZero(fw) THEN RobustFrames(frame_index + 1, end_frame, buf)
         ELSE RobustFrames(frame_index + 1, end_frame,
                           RobustChannels(frame_index, fw, 0, buf))

RobustBlock(block) ==
    LET start_frame == block * Res
        end_frame == start_frame + Res
        buf == RobustFrames(start_frame, end_frame, <<>>)
    IN  IF Len(buf) = 0
        THEN [value |-> Zero, weight |-> Zero]
        ELSE smart_median_1d(buf)

get_robust_correlated ==
    LET n_blocks == roundup_ratio(n_frames, Res)
        signal_values_out == [block \in 0..(n_blocks - 1) |-> RobustBlock(block).value]
        signal_weights_out == [block \in 0..(n_blocks - 1) |-> RobustBlock(block).weight]
    IN  [op |-> "get_robust_correlated",
         values |-> signal_values_out, weights |-> signal_weights_out]

\* a kernel call: the arrays as the call found them, and the call count
Called ==
    /\ n_calls < MaxCalls
    /\ n_calls' = n_calls + 1
    /\ pre' = Snapshot
    /\ past' = IF n_calls = 0 THEN past ELSE Append(past, [call |-> call, pre |-> pre])

GetMLCorrelated ==
    /\ Called
    /\ call' = get_ml_correlated
    /\ UNCHANGED outside
    /\ UNCHANGED <<inputs, arrays>>

GetRobustCorrelated ==
    /\ Called
    /\ call' = get_robust_correlated
    /\ UNCHANGED outside
    /\ UNCHANGED <<inputs, arrays>>

InitCorrelated ==
    /\ InitFrames(CorrelatedProfiles, CorrelatedProfiles, 0..MaxResolution, {0})
    /\ InitChannels(ChannelGroups, ChannelKinds)

\* the estimators are pure: one call per input
NextCorrelated ==
    /\ n_calls = 0
    /\ (GetMLCorrelated \/ GetRobustCorrelated)

SpecCorrelated == InitCorrelated /\ [][NextCorrelated]_vars

----------------------------------------------------------------------------
(* Gain Increment Engine *)

\* frame_data[frame, channel] -= amount
SubData(fd, frame, channel, amount) ==
    [fd EXCEPT ![frame][channel] = FSub(@, amount)]

\* resync_gains, the channel loop
RECURSIVE ResyncChannels(_, _, _, _, _)
ResyncChannels(fd, frame, i, c, delta_gains) ==
    IF i >= NChannels THEN fd
    ELSE LET channel == channel_indices[i]
             dg == delta_gains[i]
         IN  IF FIsZero(dg) THEN ResyncChannels(fd, frame, i + 1, c, delta_gains)
             ELSE ResyncChannels(SubData(fd, frame, channel, FMul(dg, c)),
                                 frame, i + 1, c, delta_gains)

\* the frame loop of resync_gains without its frame_valid test
RECURSIVE ResyncFramesAll(_, _, _, _, _)
ResyncFramesAll(fd, frame, end_frame, c, delta_gains) ==
    IF frame >= end_frame THEN fd
    ELSE ResyncFramesAll(ResyncChannels(fd, frame, 0, c, delta_gains),
                         frame + 1, end_frame, c, delta_gains)

\* resync_gains, the frame loop over range(frame, end_frame)
RECURSIVE ResyncFrames(_, _, _, _, _)
ResyncFrames(fd, frame, end_frame, c, delta_gains) ==
    IF frame >= end_frame THEN fd
    ELSE IF ~frame_valid[frame]
    THEN ResyncFrames(fd, frame + 1, end_frame, c, delta_gains)
    ELSE ResyncFrames(ResyncChannels(fd, frame, 0, c, delta_gains),
                      frame + 1, end_frame, c, delta_gains)

\* resync_gains, the loop over range(signal_index, n_signal)
RECURSIVE ResyncBlocks(_, _, _, _)
ResyncBlocks(fd, signal_index, n_signal, delta_gains) ==
    IF signal_index >= n_signal THEN fd
    ELSE LET start_frame == signal_index * Res
             end_frame == start_frame + Res
             c == signal_values[signal_index]
         IN  IF FIsZero(c) THEN ResyncBlocks(fd, signal_index + 1, n_signal, delta_gains)
             ELSE ResyncBlocks(ResyncFrames(fd, start_frame, end_frame, c, delta_gains),
                               signal_index + 1, n_signal, delta_gains)

\* resync_gains(frame_data, signal_values, resolution, delta_gains, ...)
resync_gains(delta_gains) ==
    LET n_signal == roundup_ratio(n_frames, Res)
    IN  [n_signal |-> n_signal,
         frame_data |-> ResyncBlocks(frame_data, 0, n_signal, delta_gains)]

\* the data correction of apply_gain_increments, were it to skip the flagged
\* samples as the dependents loop does
RECURSIVE ApplyDataUnflagged(_, _, _, _)
ApplyDataUnflagged(st, frame, i, dc) ==
    IF i >= NChannels THEN st
    ELSE IF sample_flags[frame][channel_indices[i]] # 0
    THEN ApplyDataUnflagged(st, frame, i + 1, dc)
    ELSE ApplyDataUnflagged(
            [st EXCEPT !.frame_data =
                SubData(@, frame, channel_indices[i], FMul(channel_g[i], dc))],
            frame, i + 1, dc)

\* apply_gain_increments, the first channel loop: the data correction.
\* st holds the arrays being updated.
RECURSIVE ApplyData(_, _, _, _)
ApplyData(st, frame, i, dc) ==
    IF i >= NChannels THEN st
    ELSE ApplyData([st EXCEPT !.frame_data =
                        SubData(@, frame, channel_indices[i], FMul(channel_g[i], dc))],
                   frame, i + 1, dc)

\* apply_gain_increments, the second channel loop: the dependents
RECURSIVE ApplyDependents(_, _, _, _)
ApplyDependents(st, frame, i, fp_norm) ==
    IF i >= NChannels THEN st
    ELSE LET channel == channel_indices[i]
             fwg2 == channel_fwg2[i]
             dp == FMul(fp_norm, fwg2)
         IN  IF sample_flags[frame][channel] # 0
             THEN ApplyDependents(st, frame, i + 1, fp_norm)
             ELSE IF FIsZero(fwg2)
             THEN ApplyDependents(st, frame, i + 1, fp_norm)
             ELSE ApplyDependents(
                    [st EXCEPT !.frame_dependents[frame] = FAdd(@, dp),
                               !.channel_dependents[channel] = FAdd(@, dp)],
                    frame, i + 1, fp_norm)

\* apply_gain_increments, the frame loop over range(frame, end_frame)
RECURSIVE ApplyFrames(_, _, _, _, _)
ApplyFrames(st, frame, end_frame, dc, dw) ==
    IF frame >= end_frame THEN st
    ELSE IF ~frame_valid[frame] THEN ApplyFrames(st, frame + 1, end_frame, dc, dw)
    ELSE LET corrected == ApplyData(st, frame, 0, dc)
             fp_norm == FDiv(frame_weights[frame], dw)
         IN  IF modeling_frames[frame]
             THEN ApplyFrames(corrected, frame + 1, end_frame, dc, dw)
             ELSE IF FIsZero(fp_norm)
             THEN ApplyFrames(corrected, frame + 1, end_frame, dc, dw)
             ELSE ApplyFrames(ApplyDependents(corrected, frame, 0, fp_norm),
                              frame + 1, end_frame, dc, dw)

\* apply_gain_increments, the loop over range(signal_index, n_signal)
RECURSIVE ApplyBlocks(_, _, _, _, _)
ApplyBlocks(st, signal_index, n_signal, increment, increment_weight) ==
    IF signal_index >= n_signal THEN st
    ELSE LET start_frame == signal_index * Res
             end_frame == start_frame + Res
             dw == increment_weight[signal_index]
             dc == increment[signal_index]
             done == ApplyFrames(st, start_frame, end_frame, dc, dw)
         IN  IF FLe0(dw)
             THEN ApplyBlocks(st, signal_index + 1, n_signal, increment, increment_weight)
             ELSE ApplyBlocks(
                    [done EXCEPT !.signal_values[signal_index] = FAdd(@, dc),
                                 !.signal_weights[signal_index] = dw],
                    signal_index + 1, n_signal, increment, increment_weight)

\* apply_gain_increments without the update of signal_weights
apply_gain_increments_unweighted(increment, increment_weight) ==
    LET n_signal == roundup_ratio(n_frames, Res)
    IN  [n_signal |-> n_signal,
         arrays |-> [ApplyBlocks(Snapshot, 0, n_signal, increment, increment_weight)
                        EXCEPT !.signal_weights = signal_weights]]

\* apply_gain_increments without the update of signal_values
apply_gain_increments_unrecorded(increment, increment_weight) ==
    LET n_signal == roundup_ratio(n_frames, Res)
    IN  [n_signal |-> n_signal,
         arrays |-> [ApplyBlocks(Snapshot, 0, n_signal, increment, increment_weight)
                        EXCEPT !.signal_values = signal_values]]

\* apply_gain_increments(frame_data, ..., resolution, increment, increment_weight)
apply_gain_increments(increment, increment_weight) ==
    LET n_signal == roundup_ratio(n_frames, Res)
    IN  [n_signal |-> n_signal,
         arrays |-> ApplyBlocks(Snapshot, 0, n_signal, increment, increment_weight)]

\* synchronize_gains, the channel loop of one frame
RECURSIVE SyncChannels(_, _, _, _)
SyncChannels(st, frame, i, a) ==
    IF i >= NChannels THEN st
    ELSE LET channel == channel_indices[i]
             c_wc2 == a.channel_wc2[i]
             resynced == [st EXCEPT !.frame_data =
                              SubData(@, frame, channel,
                                      FMul(a.delta_gains[i], a.signal_values[frame]))]
         IN  IF FLe0(c_wc2) THEN SyncChannels(st, frame, i + 1, a)
             ELSE IF modeling_frames[frame] THEN SyncChannels(resynced, frame, i + 1, a)
             ELSE IF sample_flags[frame][channel] # 0
             THEN SyncChannels(resynced, frame, i + 1, a)
             ELSE SyncChannels(
                    [resynced EXCEPT !.frame_dependents[frame] =
                                         FAdd(@, FDiv(a.frame_wc2[frame], c_wc2))],
                    frame, i + 1, a)

\* synchronize_gains, the loop over range(frame_data.shape[0])
RECURSIVE SyncFrames(_, _, _)
SyncFrames(st, frame, a) ==
    IF frame >= n_frames THEN st
    ELSE IF ~frame_valid[frame] THEN SyncFrames(st, frame + 1, a)
    ELSE SyncFrames(SyncChannels(st, frame, 0, a), frame + 1, a)

\* synchronize_gains, the channel dependents loop
RECURSIVE SyncParms(_, _, _, _)
SyncParms(st, i, channel_dependence, a) ==
    IF i >= NChannels THEN st
    ELSE IF FGt0(a.channel_wc2[i])
    THEN SyncParms([st EXCEPT !.channel_dependents[channel_indices[i]] =
                                  FAdd(@, channel_dependence)],
                   i + 1, channel_dependence, a)
    ELSE SyncParms(st, i + 1, channel_dependence, a)

\* synchronize_gains with a channel dependence of 1, the renormalization
\* left out
synchronize_gains_unnormalized(a) ==
    SyncParms(SyncFrames(Snapshot, 0, a), 0, One, a)

\* synchronize_gains(..., delta_gains, frame_wc2, channel_wc2, signal_values, ...)
synchronize_gains(a) ==
    LET channel_dependence == FSub(One, FDiv(One, R(NChannels)))
    IN  SyncParms(SyncFrames(Snapshot, 0, a), 0, channel_dependence, a)

----------------------------------------------------------------------------
(* The fitting loop's calls *)

\* the per-channel gain deltas a caller passes to resync_gains
DeltaChoices ==
    {channel_g, [i \in Group |-> FSub(Zero, channel_g[i])], [i \in Group |-> R(i)]}

ResyncGains ==
    /\ Called
    /\ \E delta_gains \in DeltaChoices :
        \E r \in {resync_gains(delta_gains)} :
        /\ frame_data' = r.frame_data
        /\ call' = [op |-> "resync_gains", delta_gains |-> delta_gains,
                    n_signal |-> r.n_signal]
    /\ UNCHANGED outside
    /\ UNCHANGED <<inputs, frame_dependents, channel_dependents, signal_values,
                   signal_weights>>

Inc(dc, dw) == [dc |-> R(dc), dw |-> R(dw)]

\* the increments a caller passes to apply_gain_increments: fixed patterns,
\* or the estimate the last call returned
IncrementChoices ==
    {[b \in Blocks |-> Inc(1, 2)],
     [b \in Blocks |-> IF b % 2 = 0 THEN Inc(-2, 1) ELSE Inc(3, 0)],
     [b \in Blocks |-> IF b % 2 = 0 THEN Inc(2, -1) ELSE Inc(1, 2)]}
    \cup (IF call.op \in {"get_ml_correlated", "get_robust_correlated"}
          THEN {[b \in Blocks |-> [dc |-> call.values[b], dw |-> call.weights[b]]]}
          ELSE {})

ApplyGainIncrements ==
    /\ Called
    /\ \E inc \in IncrementChoices :
        LET increment == [b \in Blocks |-> inc[b].dc]
            increment_weight == [b \in Blocks |-> inc[b].dw]
        IN  \E r \in {apply_gain_increments(increment, increment_weight)} :
            /\ frame_data' = r.arrays.frame_data
            /\ frame_dependents' = r.arrays.frame_dependents
            /\ channel_dependents' = r.arrays.channel_dependents
            /\ signal_values' = r.arrays.signal_values
            /\ signal_weights' = r.arrays.signal_weights
            /\ call' = [op |-> "apply_gain_increments", increment |-> increment,
                        increment_weight |-> increment_weight,
                        n_signal |-> r.n_signal]
    /\ UNCHANGED outside
    /\ UNCHANGED inputs

\* the arguments a caller passes to synchronize_gains: the per-frame gain
\* signal c, frame_wc2 = w * c^2, and the channel weights
SyncChoices ==
    LET c == [f \in Frames |-> R(f - 1)]
    IN  {[delta_gains |-> channel_g,
          signal_values |-> c,
          frame_wc2 |-> [f \in Frames |-> FMul(frame_weights[f], FMul(c[f], c[f]))],
          channel_wc2 |-> cw] :
            cw \in {[i \in Group |-> R(2)], [i \in Group |-> R(i)]}}

SynchronizeGains ==
    /\ Called
    /\ \E a \in SyncChoices :
        \E r \in {synchronize_gains(a)} :
        /\ frame_data' = r.frame_data
        /\ frame_dependents' = r.frame_dependents
        /\ channel_dependents' = r.channel_dependents
        /\ call' = [op |-> "synchronize_gains", args |-> a]
    /\ UNCHANGED outside
    /\ UNCHANGED <<inputs, signal_values, signal_weights>>

GainProfiles == {InvalidFrame, PlainFrame, HalfFlaggedFrame, ModelingFrame}
MemoryProfiles == {InvalidFrame, PlainFrame, NegativeWeightFrame}
GainGroups == {ZSeq(<<1>>), ZSeq(<<1, 0>>)}
GainKinds == {Kind(2, 1, 0), Kind(-1, 3, 1)}

Init ==
    /\ InitFrames(GainProfiles, MemoryProfiles, 1..MaxResolution, {0, 1})
    /\ InitChannels(GainGroups, GainKinds)

Next ==
    \/ GetMLCorrelated
    \/ GetRobustCorrelated
    \/ ResyncGains
    \/ ApplyGainIncrements
    \/ SynchronizeGains

Spec == Init /\ [][Next]_vars

----------------------------------------------------------------------------
(* Properties of the correlated-signal estimators *)

\* the sum of the values of a function with a finite domain
RECURSIVE FSum(_)
FSum(f) ==
    IF DOMAIN f = {} THEN Zero
    ELSE LET x == CHOOSE x \in DOMAIN f : TRUE
         IN  FAdd(f[x], FSum([y \in DOMAIN f \ {x} |-> f[y]]))

\* the frames of block b, and whether all of its resolution frames exist
BlockFrames(b) == {f \in Frames : f \div Res = b}
FullBlock(b) == (b + 1) * Res <= n_frames

\* the samples (frame f, group channel i) of block b that the estimators use
UsableSamples(b) ==
    {s \in BlockFrames(b) \X Group :
        /\ frame_valid[s[1]]
        /\ ~FIsZero(frame_weights[s[1]])
        /\ sample_flags[s[1]][channel_indices[s[2]]] = 0}

MLDenominator(b) ==
    FSum([s \in UsableSamples(b) |-> FMul(frame_weights[s[1]], channel_wg2[s[2]])])

MLNumerator(b) ==
    FSum([s \in UsableSamples(b) |->
            FMul(FMul(frame_weights[s[1]], channel_wg[s[2]]),
                 frame_data[s[1]][channel_indices[s[2]]])])

MLAgrees(b) ==
    ~FIsZero(MLDenominator(b)) =>
        /\ call.values[b] = FDiv(MLNumerator(b), MLDenominator(b))
        /\ call.weights[b] = MLDenominator(b)

\* C1: get_ml_correlated returns, for every block whose denominator D (the sum
\* of frame_weights[f]*channel_wg2[i] over the valid, weighted, unflagged
\* samples of the block) is nonzero, the estimate sum(fw*wg*x)/D and the
\* weight D; no other sample contributes.
C1_MLEstimate ==
    call.op = "get_ml_correlated" => \A b \in Blocks : MLAgrees(b)

\* C1 restricted to the blocks all of whose frames exist
C1_MLEstimateFullBlocks ==
    call.op = "get_ml_correlated" => \A b \in Blocks : FullBlock(b) => MLAgrees(b)

C1_FullBlockEstimated ==
    /\ call.op = "get_ml_correlated"
    /\ \E b \in Blocks :
        /\ FullBlock(b)
        /\ ~FIsZero(MLDenominator(b))
        /\ \E f \in BlockFrames(b) : ~frame_valid[f] \/ FIsZero(frame_weights[f])
        /\ \E f \in BlockFrames(b) : \E c \in Channels : sample_flags[f][c] # 0

\* the usable samples the robust estimator keeps: those of nonzero gain
RobustSamples(b) == {s \in UsableSamples(b) : ~FIsZero(channel_g[s[2]])}

IsEstimate == call.op \in {"get_ml_correlated", "get_robust_correlated"}

NoUsableSample(b) ==
    IF call.op = "get_ml_correlated" THEN UsableSamples(b) = {}
    ELSE RobustSamples(b) = {}

\* C2: get_ml_correlated and get_robust_correlated return value 0 and weight 0
\* for every block without a usable sample (every frame invalid or of zero
\* weight, every group sample flagged, or, robust, every gain zero), and no
\* division by zero occurs.
C2_EmptyBlocks ==
    IsEstimate => \A b \in Blocks :
        NoUsableSample(b) => call.values[b] = Zero /\ call.weights[b] = Zero

\* C2 restricted to the blocks all of whose frames exist
C2_EmptyFullBlocks ==
    IsEstimate => \A b \in Blocks :
        (FullBlock(b) /\ NoUsableSample(b)) =>
            call.values[b] = Zero /\ call.weights[b] = Zero

\* no returned value is a division by zero
C2_NoZeroDivision ==
    IsEstimate => \A b \in DOMAIN call.values :
        call.values[b] # ZeroDiv /\ call.weights[b] # ZeroDiv

----------------------------------------------------------------------------
(* Properties of the gain increment engine *)

BlockOf(f) == f \div Res
GroupIndex(c) == {i \in Group : channel_indices[i] = c}
InGroup(c) == GroupIndex(c) # {}
FLeq(a, b) == a.d # 0 /\ b.d # 0 /\ a.n * b.d <= b.n * a.d
IsApply == call.op = "apply_gain_increments"
IsResync == call.op = "resync_gains"
IsSync == call.op = "synchronize_gains"
\* whether the last apply_gain_increments call applied an increment to f's block
Applied(f) == FGt0(call.increment_weight[BlockOf(f)])

\* what apply_gain_increments is to subtract from frame_data[f, c]
ApplyCorrection(f, c) ==
    IF frame_valid[f] /\ Applied(f)
    THEN FSum([i \in GroupIndex(c) |->
                 FMul(channel_g[i], call.increment[BlockOf(f)])])
    ELSE Zero

\* C3: apply_gain_increments subtracts channel_g[i]*increment[block] from every
\* group sample of every valid frame of every block with increment_weight > 0,
\* flagged samples and modeling frames included, and changes no frame data of
\* invalid frames, of blocks with increment_weight <= 0 or of other channels.
C3_ApplyCorrectsData ==
    IsApply => \A f \in Frames : \A c \in Channels :
        frame_data[f][c] = FSub(pre.frame_data[f][c], ApplyCorrection(f, c))

C3_FlaggedAndModelingCorrected ==
    /\ IsApply
    /\ \E f \in Frames : \E c \in Channels :
        /\ frame_valid[f] /\ modeling_frames[f] /\ frame_data[f][c] # pre.frame_data[f][c]
    /\ \E f \in Frames : \E c \in Channels :
        /\ frame_valid[f] /\ ~modeling_frames[f] /\ sample_flags[f][c] # 0
        /\ frame_data[f][c] # pre.frame_data[f][c]
    /\ \E f \in Frames : ~Applied(f)
    /\ \E c \in Channels : ~InGroup(c)

\* what apply_gain_increments is to add to the dependents for sample (f, i)
DependentsAmount(f, i) ==
    IF /\ frame_valid[f] /\ ~modeling_frames[f] /\ Applied(f)
       /\ sample_flags[f][channel_indices[i]] = 0
    THEN FMul(FDiv(frame_weights[f], call.increment_weight[BlockOf(f)]),
              channel_fwg2[i])
    ELSE Zero

FrameAmount(f) == FSum([i \in Group |-> DependentsAmount(f, i)])
ChannelAmount(c) ==
    FSum([s \in Frames \X GroupIndex(c) |-> DependentsAmount(s[1], s[2])])

DependentsBooked ==
    /\ \A f \in Frames :
        frame_dependents[f] = FAdd(pre.frame_dependents[f], FrameAmount(f))
    /\ \A c \in Channels :
        channel_dependents[c] = FAdd(pre.channel_dependents[c], ChannelAmount(c))

\* C4: apply_gain_increments adds frame_weight[f]/dw * channel_fwg2[i] to
\* frame_dependents[f] and to channel_dependents[channel_indices[i]] for every
\* sample of a valid, non-modeling frame with flag zero in a block with dw > 0,
\* and nothing for any other sample.
C4_ApplyDependents == IsApply => DependentsBooked

\* C4 when every block has all of its frames
C4_ApplyDependentsFullBlocks ==
    (IsApply /\ n_frames % Res = 0) => DependentsBooked

\* C5: apply_gain_increments adds increment[block] to signal_values[block] and
\* sets signal_weights[block] to increment_weight[block] for every block with
\* increment_weight > 0, and leaves both unchanged for every other block.
C5_ApplySignal ==
    IsApply => \A b \in Blocks :
        IF FGt0(call.increment_weight[b])
        THEN /\ signal_values[b] = FAdd(pre.signal_values[b], call.increment[b])
             /\ signal_weights[b] = call.increment_weight[b]
        ELSE /\ signal_values[b] = pre.signal_values[b]
             /\ signal_weights[b] = pre.signal_weights[b]

C5_SignalIncremented ==
    /\ IsApply
    /\ \E b \in Blocks :
        /\ FGt0(call.increment_weight[b])
        /\ ~FIsZero(pre.signal_values[b])
        /\ ~FIsZero(call.increment[b])
        /\ pre.signal_weights[b] # call.increment_weight[b]
    /\ \E b \in Blocks : FLe0(call.increment_weight[b]) /\ ~FIsZero(call.increment[b])

\* what resync_gains is to subtract from frame_data[f, c]
ResyncCorrection(f, c, delta_gains) ==
    IF frame_valid[f]
    THEN FSum([i \in GroupIndex(c) |->
                 FMul(signal_values[BlockOf(f)], delta_gains[i])])
    ELSE Zero

\* C6: resync_gains subtracts signal_values[f // resolution] * delta_gains[i]
\* from frame_data[f, channel_indices[i]] for every valid frame and group
\* channel, changes no other sample, and leaves signal_values as they were.
C6_ResyncSubtracts ==
    IsResync =>
        /\ \A f \in Frames : \A c \in Channels :
            frame_data[f][c] =
                FSub(pre.frame_data[f][c], ResyncCorrection(f, c, call.delta_gains))
        /\ signal_values = pre.signal_values

C6_Resynced ==
    /\ IsResync
    /\ \E f \in Frames : \E c \in Channels :
        frame_valid[f] /\ frame_data[f][c] # pre.frame_data[f][c]
    /\ \E f \in Frames : ~frame_valid[f] /\ ~FIsZero(signal_values[BlockOf(f)])
    /\ \E c \in Channels : ~InGroup(c)

\* the call before the last one, with the arrays it found
Earlier == past[Len(past)]
AfterApply == Len(past) > 0 /\ Earlier.call.op = "apply_gain_increments"
Negated(gains) == [i \in DOMAIN gains |-> FSub(Zero, gains[i])]
Restored == \A f \in Frames : \A c \in Channels :
                frame_data[f][c] = Earlier.pre.frame_data[f][c]

\* C7: apply_gain_increments followed by resync_gains with the applied gains
\* as delta_gains restores every frame_data sample to its value before the
\* apply.
C7_RoundTrip ==
    (IsResync /\ AfterApply /\ call.delta_gains = channel_g) => Restored

\* C7 as amended: apply_gain_increments on signal values that are all 0,
\* followed by resync_gains with the negated applied gains as delta_gains,
\* restores every frame_data sample to its value before the apply.
C7_RoundTripNegated ==
    (/\ IsResync /\ AfterApply
     /\ call.delta_gains = Negated(channel_g)
     /\ \A b \in Blocks : FIsZero(Earlier.pre.signal_values[b])) => Restored

C7_AppliedAndUndone ==
    /\ IsResync /\ AfterApply
    /\ call.delta_gains = Negated(channel_g)
    /\ \A b \in Blocks : FIsZero(Earlier.pre.signal_values[b])
    /\ \E f \in Frames : \E c \in Channels :
        /\ pre.frame_data[f][c] # Earlier.pre.frame_data[f][c]
        /\ frame_data[f][c] = Earlier.pre.frame_data[f][c]
    /\ \E b \in Blocks : FLe0(Earlier.call.increment_weight[b])

Range(a) == {a[i] : i \in DOMAIN a}

DependentsKept ==
    /\ \A f \in Frames :
        /\ FLeq(pre.frame_dependents[f], frame_dependents[f])
        /\ ~frame_valid[f] => frame_dependents[f] = pre.frame_dependents[f]
    /\ \A c \in Channels :
        /\ FLeq(pre.channel_dependents[c], channel_dependents[c])
        /\ ~InGroup(c) => channel_dependents[c] = pre.channel_dependents[c]

\* C8: with non-negative frame weights and channel weight terms, no call of
\* apply_gain_increments or synchronize_gains decreases or resets an entry of
\* the frame or channel dependents, and the entries of invalid frames and of
\* channels outside channel_indices keep their value.
C8_DependentsAccumulate == (IsApply \/ IsSync) => DependentsKept

\* C8 when every block has all of its frames
C8_DependentsAccumulateFullBlocks ==
    ((IsApply \/ IsSync) /\ n_frames % Res = 0) => DependentsKept

\* ceil(n / r), by its definition
Ceil(n, r) == CHOOSE k \in 0..n : k * r >= n /\ (k - 1) * r < n

----------------------------------------------------------------------------
(* Gain increment and covariance statistics *)

\* get_ml_gain_increment, the channel loop of one frame
RECURSIVE GainIncrementChannels(_, _, _, _, _)
GainIncrementChannels(acc, frame_index, i, wc, wc2) ==
    IF i >= NChannels THEN acc
    ELSE LET channel_index == channel_indices[i] IN
         IF sample_flags[frame_index][channel_index] # 0
         THEN GainIncrementChannels(acc, frame_index, i + 1, wc, wc2)
         ELSE GainIncrementChannels(
                [acc EXCEPT !.increment[i] =
                                FAdd(@, FMul(wc, frame_data[frame_index][channel_index])),
                            !.increment_weight[i] = FAdd(@, wc2)],
                frame_index, i + 1, wc, wc2)

\* get_ml_gain_increment, the loop over range(n_frames)
RECURSIVE GainIncrementFrames(_, _, _, _, _)
GainIncrementFrames(acc, frame_index, signal_wc, signal_wc2, valid_frames) ==
    IF frame_index >= n_frames THEN acc
    ELSE IF ~valid_frames[frame_index]
    THEN GainIncrementFrames(acc, frame_index + 1, signal_wc, signal_wc2, valid_frames)
    ELSE LET wc == signal_wc[frame_index] IN
         IF FIsZero(wc)
         THEN GainIncrementFrames(acc, frame_index + 1, signal_wc, signal_wc2,
                                  valid_frames)
         ELSE GainIncrementFrames(
                GainIncrementChannels(acc, frame_index, 0, wc, signal_wc2[frame_index]),
                frame_index + 1, signal_wc, signal_wc2, valid_frames)

\* get_ml_gain_increment(frame_data, signal_wc, signal_wc2, ..., valid_frames)
get_ml_gain_increment(signal_wc, signal_wc2, valid_frames) ==
    LET sums == GainIncrementFrames([increment |-> [i \in Group |-> Zero],
                                     increment_weight |-> [i \in Group |-> Zero]],
                                    0, signal_wc, signal_wc2, valid_frames)
    IN  [op |-> "get_ml_gain_increment",
         increment |-> [i \in Group |->
                          IF FGt0(sums.increment_weight[i])
                          THEN FDiv(sums.increment[i], sums.increment_weight[i])
                          ELSE sums.increment[i]],
         increment_weight |-> sums.increment_weight]

\* get_covariance, the channel loop of one frame
RECURSIVE CovarianceChannels(_, _, _, _, _)
CovarianceChannels(acc, frame, i, s, channel_weights) ==
    IF i >= NChannels THEN acc
    ELSE LET channel == channel_indices[i]
             w == channel_weights[i]
             x == frame_data[frame][channel]
         IN  IF FIsZero(w) THEN CovarianceChannels(acc, frame, i + 1, s, channel_weights)
             ELSE IF sample_flags[frame][channel] # 0
             THEN CovarianceChannels(acc, frame, i + 1, s, channel_weights)
             ELSE CovarianceChannels(
                    [acc EXCEPT !.sum_x2[i] = FAdd(@, FMul(FMul(w, x), x)),
                                !.sum_xs[i] = FAdd(@, FMul(FMul(w, x), s)),
                                !.sum_s2[i] = FAdd(@, FMul(FMul(w, s), s))],
                    frame, i + 1, s, channel_weights)

\* get_covariance, the loop over range(frame_data.shape[0])
RECURSIVE CovarianceFrames(_, _, _, _)
CovarianceFrames(acc, frame, signal, channel_weights) ==
    IF frame >= n_frames THEN acc
    ELSE IF ~frame_valid[frame]
    THEN CovarianceFrames(acc, frame + 1, signal, channel_weights)
    ELSE IF IsNaN(signal[frame])
    THEN CovarianceFrames(acc, frame + 1, signal, channel_weights)
    ELSE CovarianceFrames(CovarianceChannels(acc, frame, 0, signal[frame],
                                             channel_weights),
                          frame + 1, signal, channel_weights)

\* get_covariance, the sum over the channels with xs > 0
RECURSIVE CovarianceSum(_, _, _)
CovarianceSum(acc, i, c2) ==
    IF i >= NChannels THEN c2
    ELSE IF FGt0(acc.sum_xs[i])
    THEN CovarianceSum(acc, i + 1,
                       FAdd(c2, FDiv(FMul(acc.sum_xs[i], acc.sum_xs[i]),
                                     FMul(acc.sum_x2[i], acc.sum_s2[i]))))
    ELSE CovarianceSum(acc, i + 1, c2)

\* get_covariance(signal_values, frame_data, ..., channel_weights, ...): the
\* sums, and c2, the square of the covariance it returns
get_covariance(signal, channel_weights) ==
    LET sums == CovarianceFrames([sum_xs |-> [i \in Group |-> Zero],
                                  sum_x2 |-> [i \in Group |-> Zero],
                                  sum_s2 |-> [i \in Group |-> Zero]],
                                 0, signal, channel_weights)
    IN  [sums |-> sums, c2 |-> CovarianceSum(sums, 0, Zero)]

\* get_covariance is compiled with fastmath=True, which lets the compiler
\* assume that no operand is NaN: once a NaN has entered a sum, the value
\* returned is whatever the generated code happens to compute
FastMath(r) ==
    IF \E i \in Group : IsNaN(r.sums.sum_xs[i]) \/ IsNaN(r.sums.sum_x2[i])
                        \/ IsNaN(r.sums.sum_s2[i])
    THEN {r.c2, NaN, Zero}
    ELSE {r.c2}

\* the correlated signal of each frame
FrameSignal == [f \in Frames |-> signal_values[f \div Res]]

GetMLGainIncrement ==
    /\ Called
    /\ LET signal_wc == [f \in Frames |-> FMul(frame_weights[f], FrameSignal[f])]
           signal_wc2 == [f \in Frames |->
                            FMul(frame_weights[f], FMul(FrameSignal[f], FrameSignal[f]))]
       IN  call' = get_ml_gain_increment(signal_wc, signal_wc2, frame_valid)
    /\ UNCHANGED outside
    /\ UNCHANGED <<inputs, arrays>>

GetCovariance ==
    /\ Called
    /\ \E r \in {get_covariance(FrameSignal, channel_w)} :
        \E c2 \in FastMath(r) :
            call' = [op |-> "get_covariance", c2 |-> c2]
    /\ UNCHANGED outside
    /\ UNCHANGED <<inputs, arrays>>

NaNDataFrame == [PlainFrame EXCEPT !.data[1] = NaN]
NaNWeightFrame == [PlainFrame EXCEPT !.weight = NaN]
NaNProfiles == {InvalidFrame, PlainFrame, HalfFlaggedFrame, NaNDataFrame, NaNWeightFrame}
NaNKinds == {Kind(2, 1, 1), [g |-> One, w |-> NaN, f |-> One]}

InitNaN ==
    /\ InitFrames(NaNProfiles, NaNProfiles, {1}, {1})
    /\ InitChannels(GainGroups, NaNKinds)

\* the statistics are pure: one call per input
NextNaN ==
    /\ n_calls = 0
    /\ (GetMLCorrelated \/ GetMLGainIncrement \/ GetCovariance)

SpecNaN == InitNaN /\ [][NextNaN]_vars

\* the numbers the last call returned
Returned ==
    IF call.op = "get_ml_correlated" THEN Range(call.values) \cup Range(call.weights)
    ELSE IF call.op = "get_ml_gain_increment"
    THEN Range(call.increment) \cup Range(call.increment_weight)
    ELSE IF call.op = "get_covariance" THEN {call.c2}
    ELSE {}

\* C9: no estimate, weight or statistic returned by get_ml_correlated,
\* get_ml_gain_increment or get_covariance is NaN, whatever NaN the frame
\* data, the frame weights or the channel weights hold.
C9_NaNNeverPropagates == \A x \in Returned : ~IsNaN(x)

----------------------------------------------------------------------------
(* Drift Leveler *)

Min(a, b) == IF a < b THEN a ELSE b

\* numba_functions.mean on a buffer of [v, w] records:
\* (sum(w*x)/sum(w), sum(w)), and (0, 0) if sum(w) = 0
mean(buf) ==
    LET total == BufSum(buf, FALSE)
    IN  IF FIsZero(total) THEN [value |-> Zero, weight |-> Zero]
        ELSE [value |-> FDiv(BufSum(buf, TRUE), total), weight |-> total]

\* an optional weights argument: an array, or None; for None,
\* w = np.ones(x.size)
Given(weights) == [given |-> TRUE, array |-> weights]
None == [given |-> FALSE, array |-> <<>>]
Ones(values) == [i \in DOMAIN values |-> One]

\* x = values[start:end] and w = weights[start:end]: a slice stops at the
\* end of the array
LevelSlice(values, weights, start, end) ==
    LET stop == Min(end, Size(values))
        w == IF weights.given THEN weights.array ELSE Ones(values)
    IN  [k \in 1..(stop - start) |-> [v |-> values[start + k - 1],
                                      w |-> w[start + k - 1]]]

\* level, were it to remove the center from every value of the signal
level_everywhere(values, start_frame, end_frame, res, weights, robust) ==
    IF res = 0
    THEN [error |-> "ZeroDivisionError", values |-> values, center |-> Zero]
    ELSE LET start_signal_index == start_frame \div res
             end_signal_index == roundup_ratio(end_frame, res)
             buf == LevelSlice(values, weights, start_signal_index, end_signal_index)
             center == IF robust THEN smart_median_1d(buf).value ELSE mean(buf).value
         IN  [error |-> "none",
              values |-> [signal_index \in DOMAIN values |->
                            FSub(values[signal_index], center)],
              center |-> center]

\* level(values, start_frame, end_frame, resolution, weights, robust):
\* the values it leaves and the center it returns, or the exception of
\* "int(start_frame) // resolution" for a resolution of 0
level(values, start_frame, end_frame, res, weights, robust) ==
    IF res = 0
    THEN [error |-> "ZeroDivisionError", values |-> values, center |-> Zero]
    ELSE LET start_signal_index == start_frame \div res
             end_signal_index == roundup_ratio(end_frame, res)
             buf == LevelSlice(values, weights, start_signal_index, end_signal_index)
             center == IF robust THEN smart_median_1d(buf).value ELSE mean(buf).value
         IN  [error |-> "none",
              values |-> [signal_index \in DOMAIN values |->
                            IF /\ start_signal_index <= signal_index
                               /\ signal_index < end_signal_index
                            THEN FSub(values[signal_index], center)
                            ELSE values[signal_index]],
              center |-> center]

\* the loop of remove_drifts, were it to store the center value of this call
\* instead of adding it
RECURSIVE RemoveDriftsLatest(_, _, _, _, _, _, _)
RemoveDriftsLatest(st, drift_index, frames, res, integration_size, weights, robust) ==
    IF drift_index >= Size(st.drifts) \/ st.error # "none" THEN st
    ELSE LET start_frame == drift_index * frames
             end_frame == Min(start_frame + frames, integration_size)
             r == level(st.signal_values, start_frame, end_frame, res, weights, robust)
         IN  IF r.error # "none" THEN [st EXCEPT !.error = r.error]
             ELSE RemoveDriftsLatest(
                    [st EXCEPT !.signal_values = r.values,
                               !.drifts[drift_index] = r.center,
                               !.centers = Append(@, r.center)],
                    drift_index + 1, frames, res, integration_size, weights, robust)

\* remove_drifts, the loop over range(drifts.size); st holds signal_values,
\* drifts, the center values removed so far and the exception raised, if any
RECURSIVE RemoveDriftsLoop(_, _, _, _, _, _, _)
RemoveDriftsLoop(st, drift_index, frames, res, integration_size, weights, robust) ==
    IF drift_index >= Size(st.drifts) \/ st.error # "none" THEN st
    ELSE LET start_frame == drift_index * frames
             end_frame == Min(start_frame + frames, integration_size)
             r == level(st.signal_values, start_frame, end_frame, res, weights, robust)
         IN  IF r.error # "none" THEN [st EXCEPT !.error = r.error]
             ELSE RemoveDriftsLoop(
                    [st EXCEPT !.signal_values = r.values,
                               !.drifts[drift_index] = FAdd(@, r.center),
                               !.centers = Append(@, r.center)],
                    drift_index + 1, frames, res, integration_size, weights, robust)

\* remove_drifts(signal_values, drifts, n_frames, resolution, integration_size,
\*               signal_weights, robust); frames is its n_frames argument
remove_drifts(frames, res, integration_size, weights, robust) ==
    RemoveDriftsLoop([signal_values |-> signal_values, drifts |-> drifts,
                      centers |-> <<>>, error |-> "none"],
                     0, frames, res, integration_size, weights, robust)

\* add_drifts, the loop over range(n_drifts)
RECURSIVE AddDriftsLoop(_, _, _)
AddDriftsLoop(values, drift, drift_length) ==
    IF drift >= Size(drifts) THEN values
    ELSE LET drift_value == drifts[drift]
             start_signal_index == drift * drift_length
             end_signal_index == Min(start_signal_index + drift_length, Size(values))
         IN  IF FIsZero(drift_value) THEN AddDriftsLoop(values, drift + 1, drift_length)
             ELSE AddDriftsLoop(
                    [signal_index \in DOMAIN values |->
                        IF /\ start_signal_index <= signal_index
                           /\ signal_index < end_signal_index
                        THEN FAdd(values[signal_index], drift_value)
                        ELSE values[signal_index]],
                    drift + 1, drift_length)

\* add_drifts(signal_values, drifts, drift_length)
add_drifts(drift_length) == AddDriftsLoop(signal_values, 0, drift_length)

\* the state the signal kernels neither read nor write
frame_state == <<inputs, frame_data, frame_dependents, channel_dependents,
                 atran_cache, files>>

\* the weights argument: the signal weights, or None
WeightChoices == {Given(signal_weights), None}

Level ==
    /\ Called
    /\ \E start_frame \in 0..n_frames : \E end_frame \in start_frame..n_frames :
        \E weights \in WeightChoices : \E robust \in BOOLEAN :
        \E r \in {level(signal_values, start_frame, end_frame, resolution,
                        weights, robust)} :
        /\ signal_values' = r.values
        /\ call' = [op |-> "level", start_frame |-> start_frame,
                    end_frame |-> end_frame, weights |-> weights.given, robust |-> robust,
                    error |-> r.error, center |-> r.center]
    /\ UNCHANGED <<frame_state, signal_weights, drifts>>

RemoveDrifts ==
    /\ Called
    /\ \E frames \in 1..MaxFrames : \E weights \in WeightChoices :
        \E robust \in BOOLEAN :
        \E r \in {remove_drifts(frames, resolution, n_frames, weights, robust)} :
        /\ signal_values' = r.signal_values
        /\ drifts' = r.drifts
        /\ call' = [op |-> "remove_drifts", n_frames |-> frames,
                    weights |-> weights.given, robust |-> robust,
                    error |-> r.error, centers |-> r.centers]
    /\ UNCHANGED <<frame_state, signal_weights>>

AddDrifts ==
    /\ Called
    /\ \E drift_length \in 1..MaxFrames :
        /\ signal_values' = add_drifts(drift_length)
        /\ call' = [op |-> "add_drifts", drift_length |-> drift_length]
    /\ UNCHANGED <<frame_state, signal_weights, drifts>>

\* the signals the leveler is given, and the drifts of earlier iterations
SignalChoices ==
    {[b \in Blocks |-> R(2 * b - 1)], [b \in Blocks |-> R(b * b)],
     [b \in Blocks |-> IF b = 1 THEN R(6) ELSE R(-1)]}
SignalWeightChoices ==
    {[b \in Blocks |-> R(b)], [b \in Blocks |-> R(2 - (b % 2))]}
MaxIntegration == 4
MaxDrifts == 2
DriftChoices ==
    UNION {{[d \in 0..(n - 1) |-> Zero], [d \in 0..(n - 1) |-> R(d + 1)]} :
            n \in 0..MaxDrifts}

InitDrifts ==
    /\ n_frames \in 0..MaxIntegration
    /\ resolution \in 0..MaxResolution
    /\ frame_data = [f \in Rows |-> PlainFrame.data]
    /\ frame_weights = [f \in Rows |-> PlainFrame.weight]
    /\ frame_valid = [f \in Rows |-> PlainFrame.valid]
    /\ modeling_frames = [f \in Rows |-> PlainFrame.modeling]
    /\ sample_flags = [f \in Rows |-> PlainFrame.flags]
    /\ frame_dependents = [f \in Rows |-> Zero]
    /\ channel_dependents = [c \in Channels |-> Zero]
    /\ InitChannels({ZSeq(<<0>>)}, {Kind(1, 1, 1)})
    /\ signal_values \in SignalChoices
    /\ signal_weights \in SignalWeightChoices
    /\ drifts \in DriftChoices
    /\ atran_cache = <<>>
    /\ files = <<>>
    /\ call = NoCall
    /\ pre = Snapshot
    /\ past = <<>>
    /\ n_calls = 0

NextDrifts == Level \/ RemoveDrifts \/ AddDrifts

SpecDrifts == InitDrifts /\ [][NextDrifts]_vars

----------------------------------------------------------------------------
(* Properties of the drift leveler *)

IsLevel == call.op = "level"
IsRemoveDrifts == call.op = "remove_drifts"
IsAddDrifts == call.op = "add_drifts"

\* the weights argument of the last level or remove_drifts call
CallWeights == IF call.weights THEN Given(signal_weights) ELSE None

\* what the last level call does at a resolution of res
LevelAt(res) ==
    level(pre.signal_values, call.start_frame, call.end_frame, res,
          CallWeights, call.robust)

\* what the last remove_drifts call does at a resolution of res
RemoveDriftsAt(res) ==
    RemoveDriftsLoop([signal_values |-> pre.signal_values, drifts |-> pre.drifts,
                      centers |-> <<>>, error |-> "none"],
                     0, call.n_frames, res, n_frames, CallWeights, call.robust)

\* C11: level and remove_drifts called with a resolution < 1 complete
\* without error and leave the signal values, the drifts and the returned
\* level that they produce for resolution = 1.
C11_ResolutionClamped ==
    /\ (IsLevel /\ resolution < 1) =>
        /\ call.error = "none"
        /\ signal_values = LevelAt(1).values
        /\ call.center = LevelAt(1).center
    /\ (IsRemoveDrifts /\ resolution < 1) =>
        /\ call.error = "none"
        /\ signal_values = RemoveDriftsAt(1).signal_values
        /\ drifts = RemoveDriftsAt(1).drifts

\* C11 for the estimators: with a resolution < 1 they return one block per
\* frame
C11_EstimatorsClamped ==
    (IsEstimate /\ resolution < 1) => DOMAIN call.values = Frames

----------------------------------------------------------------------------
(* Source-Filtering Corrector *)

\* the loop over j of calculate_filtering without its channel_valid[j] test
RECURSIVE FilteringPhiAll(_, _, _, _)
FilteringPhiAll(phi, i, j, a) ==
    IF j >= NChannels THEN phi
    ELSE IF i = j THEN FilteringPhiAll(phi, i, j + 1, a)
    ELSE FilteringPhiAll(
            FAdd(phi, FMul(a.overlaps[i][j], channel_dependents[channel_indices[j]])),
            i, j + 1, a)

\* calculate_filtering, the loop over j: phi += overlaps[i, j] * dependents
RECURSIVE FilteringPhi(_, _, _, _)
FilteringPhi(phi, i, j, a) ==
    IF j >= NChannels THEN phi
    ELSE IF ~a.channel_valid[j] THEN FilteringPhi(phi, i, j + 1, a)
    ELSE IF i = j THEN FilteringPhi(phi, i, j + 1, a)
    ELSE LET overlap_value == a.overlaps[i][j] IN
         IF FIsZero(overlap_value) THEN FilteringPhi(phi, i, j + 1, a)
         ELSE FilteringPhi(
                FAdd(phi, FMul(overlap_value, channel_dependents[channel_indices[j]])),
                i, j + 1, a)

\* the body of the loop over i of calculate_filtering, were it not to undo
\* the prior filtering correction
FilteringChannelKept(i, a) ==
    IF ~a.channel_valid[i]
    THEN [sf |-> a.signal_source_filtering[i], cf |-> a.channel_source_filtering[i]]
    ELSE LET phi0 == FilteringPhi(channel_dependents[channel_indices[i]], i, 0, a)
             phi1 == IF FGt0(a.n_parms) THEN FDiv(phi0, a.n_parms) ELSE phi0
             phi == IF FLess(One, phi1) THEN One ELSE phi1
             cf0 == a.channel_source_filtering[i]
             cf == IF IsNaN(cf0) THEN One ELSE cf0
             sf == FSub(One, phi)
         IN  [sf |-> sf, cf |-> FMul(cf, sf)]

\* calculate_filtering, the body of the loop over i
FilteringChannel(i, a) ==
    IF ~a.channel_valid[i]
    THEN [sf |-> a.signal_source_filtering[i], cf |-> a.channel_source_filtering[i]]
    ELSE LET phi0 == FilteringPhi(channel_dependents[channel_indices[i]], i, 0, a)
             phi1 == IF FGt0(a.n_parms) THEN FDiv(phi0, a.n_parms) ELSE phi0
             phi == IF FLess(One, phi1) THEN One ELSE phi1
             sf0 == a.signal_source_filtering[i]
             cf0 == a.channel_source_filtering[i]
             cf1 == IF FGt0(sf0) THEN FDiv(cf0, sf0) ELSE cf0
             cf == IF IsNaN(cf1) THEN One ELSE cf1
             sf == FSub(One, phi)
         IN  [sf |-> sf, cf |-> FMul(cf, sf)]

\* calculate_filtering(channel_indices, channel_dependents, overlaps,
\*     channel_valid, n_parms, channel_source_filtering, signal_source_filtering)
calculate_filtering(a) ==
    [new_channel_source_filtering |-> [i \in Group |-> FilteringChannel(i, a).cf],
     new_signal_source_filtering |-> [i \in Group |-> FilteringChannel(i, a).sf]]

\* the prior (signal, channel) filtering of a channel
Filters(sf, cf) == [sf |-> sf, cf |-> cf]
FilterChoices ==
    {Filters(One, One), Filters(One, R(2)), Filters(Norm(1, 2), One),
     Filters(Zero, R(2)), Filters(Norm(1, 2), NaN)}

\* symmetric overlaps with a diagonal of 1
OverlapChoices == {[i \in Group |-> [j \in Group |-> IF i = j THEN One ELSE o]] :
                     o \in {Zero, One, Norm(-1, 2)}}

FilteringChoices ==
    {[overlaps |-> o, channel_valid |-> v, n_parms |-> n,
      channel_source_filtering |-> [i \in Group |-> f[i].cf],
      signal_source_filtering |-> [i \in Group |-> f[i].sf]] :
        o \in OverlapChoices, v \in [Group -> BOOLEAN], n \in {Zero, R(2), R(4)},
        f \in [Group -> FilterChoices]}

CalculateFiltering ==
    /\ Called
    /\ \E a \in FilteringChoices :
        \E r \in {calculate_filtering(a)} :
            call' = [op |-> "calculate_filtering", args |-> a,
                     new_channel_source_filtering |-> r.new_channel_source_filtering,
                     new_signal_source_filtering |-> r.new_signal_source_filtering]
    /\ UNCHANGED <<inputs, arrays, outside>>

\* an integration without frames
NoFrames ==
    /\ n_frames = 0
    /\ resolution = 1
    /\ frame_data = <<>>
    /\ frame_weights = <<>>
    /\ frame_valid = <<>>
    /\ modeling_frames = <<>>
    /\ sample_flags = <<>>
    /\ frame_dependents = <<>>
    /\ signal_values = <<>>
    /\ signal_weights = <<>>
    /\ drifts = <<>>

DependentsChoices == [Channels -> {Zero, One, R(3)}]

InitFiltering ==
    /\ NoFrames
    /\ channel_dependents \in DependentsChoices
    /\ InitChannels(ChannelGroups, {Kind(1, 1, 1)})
    /\ atran_cache = <<>>
    /\ files = <<>>
    /\ call = NoCall
    /\ pre = Snapshot
    /\ past = <<>>
    /\ n_calls = 0

\* the corrector is pure: one call per input
NextFiltering == n_calls = 0 /\ CalculateFiltering

SpecFiltering == InitFiltering /\ [][NextFiltering]_vars

IsFiltering == call.op = "calculate_filtering"

\* phi of group channel i, from its definition
Phi(i) ==
    LET a == call.args
        leak == FSum([j \in {k \in Group \ {i} : a.channel_valid[k]} |->
                        FMul(a.overlaps[i][j], channel_dependents[channel_indices[j]])])
        total == FAdd(channel_dependents[channel_indices[i]], leak)
        scaled == IF FGt0(a.n_parms) THEN FDiv(total, a.n_parms) ELSE total
    IN  IF FLess(One, scaled) THEN One ELSE scaled

\* the channel filter of i with the prior signal filter undone
Undone(i) ==
    LET sf == call.args.signal_source_filtering[i]
        cf == call.args.channel_source_filtering[i]
        u == IF FGt0(sf) THEN FDiv(cf, sf) ELSE cf
    IN  IF IsNaN(u) THEN One ELSE u

\* C12: calculate_filtering returns, for every valid channel i, the signal
\* filter 1 - phi and the channel filter (prior channel filter with the prior
\* signal filter undone, 1 if NaN) * (1 - phi), where phi is the dependents of
\* i plus the overlap-weighted dependents of the other valid channels, divided
\* by n_parms if n_parms > 0 and capped at 1; for every invalid channel it
\* returns the filters passed in.
C12_Filtering ==
    IsFiltering => \A i \in Group :
        IF call.args.channel_valid[i]
        THEN /\ call.new_signal_source_filtering[i] = FSub(One, Phi(i))
             /\ call.new_channel_source_filtering[i] =
                    FMul(Undone(i), FSub(One, Phi(i)))
        ELSE /\ call.new_signal_source_filtering[i] =
                    call.args.signal_source_filtering[i]
             /\ call.new_channel_source_filtering[i] =
                    call.args.channel_source_filtering[i]

C12_Filtered ==
    /\ IsFiltering
    /\ \E i, j \in Group :
        /\ i # j
        /\ call.args.channel_valid[i] /\ call.args.channel_valid[j]
        /\ ~FIsZero(call.args.overlaps[i][j])
        /\ ~FIsZero(channel_dependents[channel_indices[j]])
        /\ FGt0(call.args.n_parms)
        /\ FLess(Phi(i), One)
        /\ FGt0(call.args.signal_source_filtering[i])
        /\ call.args.signal_source_filtering[i] # One
        /\ call.new_channel_source_filtering[i] # call.args.channel_source_filtering[i]

NoCorrection(i) ==
    /\ call.new_signal_source_filtering[i] = One
    /\ call.new_channel_source_filtering[i] = call.args.channel_source_filtering[i]

ZeroOverlaps ==
    /\ IsFiltering
    /\ FIsZero(call.args.n_parms)
    /\ \A i, j \in Group : i # j => FIsZero(call.args.overlaps[i][j])

\* C13: with overlaps all zero and n_parms = 0, calculate_filtering returns
\* signal filter 1 and the channel filter passed in for every valid channel,
\* whatever the channel dependents and the prior filters are.
C13_NoCorrection ==
    ZeroOverlaps => \A i \in Group : call.args.channel_valid[i] => NoCorrection(i)

\* C13 as amended: with overlaps all zero and n_parms = 0, the signal filter
\* returned for a valid channel is 1 - min(d, 1) for the channel's own
\* dependents d, and the channel filter is the prior one with the prior signal
\* filter undone, times that; if d = 0 and the prior signal filter is 1 and
\* the prior channel filter is not NaN, no correction is applied.
C13_OwnDependentsOnly ==
    ZeroOverlaps => \A i \in Group : call.args.channel_valid[i] =>
        LET d == channel_dependents[channel_indices[i]]
            sf == FSub(One, IF FLess(One, d) THEN One ELSE d)
        IN  /\ call.new_signal_source_filtering[i] = sf
            /\ call.new_channel_source_filtering[i] = FMul(Undone(i), sf)
            /\ (/\ FIsZero(d)
                /\ call.args.signal_source_filtering[i] = One
                /\ ~IsNaN(call.args.channel_source_filtering[i])) => NoCorrection(i)

C13_OwnDependentsFilter ==
    /\ ZeroOverlaps
    /\ \E i \in Group :
        /\ call.args.channel_valid[i]
        /\ channel_dependents[channel_indices[i]] = One
        /\ call.new_signal_source_filtering[i] = Zero
    /\ \E i \in Group :
        /\ call.args.channel_valid[i]
        /\ FIsZero(channel_dependents[channel_indices[i]])
        /\ call.args.signal_source_filtering[i] = One
        /\ NoCorrection(i)

----------------------------------------------------------------------------
(* Properties of synchronize_gains *)

\* the group indices of channel c that synchronize_gains processes
Synced(c) == {i \in GroupIndex(c) : FGt0(call.args.channel_wc2[i])}

\* C14: synchronize_gains adds 1 - 1/n_channels to channel_parms of every
\* group channel with channel_wc2 > 0, once per call whatever the frames are;
\* it adds frame_wc2[f]/channel_wc2[i] to frame_parms[f] for every sample
\* (f, i) with f valid and not modeling, flag zero and channel_wc2[i] > 0; and
\* it subtracts delta_gains[i]*signal_values[f] from the frame data of every
\* valid frame for the channels with channel_wc2 > 0, flagged or not.
C14_Synchronize ==
    IsSync =>
        /\ \A c \in Channels :
            channel_dependents[c] =
                FAdd(pre.channel_dependents[c],
                     FSum([i \in Synced(c) |-> FSub(One, FDiv(One, R(NChannels)))]))
        /\ \A f \in Frames :
            frame_dependents[f] =
                FAdd(pre.frame_dependents[f],
                     IF frame_valid[f] /\ ~modeling_frames[f]
                     THEN FSum([i \in {k \in Group :
                                         /\ FGt0(call.args.channel_wc2[k])
                                         /\ sample_flags[f][channel_indices[k]] = 0} |->
                                  FDiv(call.args.frame_wc2[f], call.args.channel_wc2[i])])
                     ELSE Zero)
        /\ \A f \in Frames : \A c \in Channels :
            frame_data[f][c] =
                FSub(pre.frame_data[f][c],
                     IF frame_valid[f]
                     THEN FSum([i \in Synced(c) |->
                                  FMul(call.args.delta_gains[i],
                                       call.args.signal_values[f])])
                     ELSE Zero)

C14_Synchronized ==
    /\ IsSync
    /\ NChannels = 2
    /\ \E c \in Channels : channel_dependents[c] # pre.channel_dependents[c]
    /\ \E f \in Frames : frame_dependents[f] # pre.frame_dependents[f]
    /\ \E f \in Frames : \E c \in Channels :
        /\ frame_valid[f] /\ sample_flags[f][c] # 0
        /\ frame_data[f][c] # pre.frame_data[f][c]
    /\ \E f \in Frames : ~frame_valid[f] \/ modeling_frames[f]

----------------------------------------------------------------------------
(* Properties of level, remove_drifts and add_drifts *)

\* the blocks of the frame range of the last level call
LevelRange ==
    {b \in Blocks : /\ call.start_frame \div resolution <= b
                    /\ b < Ceil(call.end_frame, resolution)}

\* the weights the last level call used
LevelWeights == IF call.weights THEN signal_weights ELSE Ones(signal_values)

\* the last call is a level call with the arguments of the call before it
SameLevelAgain ==
    /\ IsLevel
    /\ Len(past) > 0
    /\ Earlier.call.op = "level"
    /\ Earlier.call.start_frame = call.start_frame
    /\ Earlier.call.end_frame = call.end_frame
    /\ Earlier.call.weights = call.weights
    /\ Earlier.call.robust = call.robust

\* C15: after level(..., robust=False) at a resolution >= 1 the weighted mean
\* of the values of the block range [start_frame // resolution,
\* ceil(end_frame / resolution)) is 0 if the total weight of the range is not
\* 0, every block of the range has lost the returned value, every other
\* block is unchanged, and a second identical call returns 0 and changes
\* nothing.
C15_LevelZeroMean ==
    (IsLevel /\ ~call.robust /\ resolution >= 1) =>
        LET total == FSum([b \in LevelRange |-> LevelWeights[b]])
            sum == FSum([b \in LevelRange |-> FMul(LevelWeights[b], signal_values[b])])
        IN  /\ call.error = "none"
            /\ ~FIsZero(total) => FDiv(sum, total) = Zero
            /\ \A b \in Blocks :
                signal_values[b] = IF b \in LevelRange
                                   THEN FSub(pre.signal_values[b], call.center)
                                   ELSE pre.signal_values[b]
            /\ SameLevelAgain =>
                /\ call.center = Zero
                /\ signal_values = pre.signal_values

C15_LevelledTwice ==
    /\ SameLevelAgain
    /\ ~call.robust /\ call.weights
    /\ resolution >= 1
    /\ Cardinality(LevelRange) > 1
    /\ Blocks \ LevelRange # {}
    /\ \E b \in LevelRange : signal_weights[b] # One
    /\ Earlier.call.center # Zero
    /\ signal_values = pre.signal_values

Drifts == DOMAIN drifts

\* the signal values the last remove_drifts call found when it came to
\* segment d: those before the call, with the segments before d levelled
RECURSIVE ValuesAt(_)
ValuesAt(d) ==
    IF d = 0 THEN pre.signal_values
    ELSE level(ValuesAt(d - 1), (d - 1) * call.n_frames,
               Min(d * call.n_frames, n_frames), resolution,
               CallWeights, call.robust).values

\* the level of segment d, frames [d*n_frames, min((d+1)*n_frames,
\* integration_size)), in the last remove_drifts call
SegmentLevel(d) ==
    level(ValuesAt(d), d * call.n_frames, Min((d + 1) * call.n_frames, n_frames),
          resolution, CallWeights, call.robust).center

AfterRemoveDrifts == Len(past) > 0 /\ Earlier.call.op = "remove_drifts"

\* C16: every remove_drifts call at a resolution >= 1 adds to drifts[d] the
\* level it removed from segment d, frames [d*n_frames, min((d+1)*n_frames,
\* integration_size)); after two calls drifts[d] is its initial value plus
\* the two levels removed from segment d.
C16_DriftsAccumulate ==
    (IsRemoveDrifts /\ resolution >= 1) =>
        /\ call.error = "none"
        /\ \A d \in Drifts :
            /\ call.centers[d + 1] = SegmentLevel(d)
            /\ drifts[d] = FAdd(pre.drifts[d], call.centers[d + 1])
            /\ AfterRemoveDrifts =>
                drifts[d] = FAdd(Earlier.pre.drifts[d],
                                 FAdd(Earlier.call.centers[d + 1], call.centers[d + 1]))

C16_DriftsAccumulated ==
    /\ IsRemoveDrifts /\ AfterRemoveDrifts
    /\ resolution >= 1
    /\ Size(drifts) = 2
    /\ n_frames % call.n_frames # 0
    /\ \E d \in Drifts : Earlier.pre.drifts[d] # Zero
    /\ \E d \in Drifts : Earlier.call.centers[d + 1] # Zero
    /\ \E d \in Drifts : call.centers[d + 1] # Zero

\* the last call is an add_drifts call that follows a remove_drifts call
\* which started from drifts of 0 with a frame in every segment, and has the
\* segment length of that call in signal samples
AddAfterRemove ==
    /\ IsAddDrifts /\ AfterRemoveDrifts
    /\ resolution >= 1
    /\ \A d \in Drifts : FIsZero(Earlier.pre.drifts[d])
    /\ \A d \in Drifts : d * Earlier.call.n_frames < n_frames
    /\ call.drift_length = Ceil(Earlier.call.n_frames, resolution)

SignalRestored == signal_values = Earlier.pre.signal_values

\* C17: starting from drifts of 0, remove_drifts followed by add_drifts with
\* the segment length of those drifts restores every signal value to what it
\* was before remove_drifts.
C17_AddDriftsInverts == AddAfterRemove => SignalRestored

\* C17 for segments of whole blocks: n_frames a multiple of the resolution
C17_AddDriftsInvertsAligned ==
    (AddAfterRemove /\ Earlier.call.n_frames % resolution = 0) => SignalRestored

\* add_drifts adds drifts[d] to the signal samples [d*drift_length,
\* min((d+1)*drift_length, n_signal)) and to no other
C17_AddDriftsAdds ==
    IsAddDrifts => \A b \in Blocks :
        signal_values[b] =
            FAdd(pre.signal_values[b],
                 FSum([d \in {e \in Drifts : /\ e * call.drift_length <= b
                                             /\ b < (e + 1) * call.drift_length} |->
                         drifts[d]]))

----------------------------------------------------------------------------
(* Differentiation and Integration *)

Half == FDiv(One, R(2))

\* differentiate_signal, the first loop: the forward differences
RECURSIVE DifferentiateForward(_, _, _)
DifferentiateForward(values, i, dt) ==
    IF i >= Size(values) - 1 THEN values
    ELSE DifferentiateForward(
            [values EXCEPT ![i] = FDiv(FSub(values[i + 1], values[i]), dt)],
            i + 1, dt)

\* differentiate_signal with the last sample left as it is
DifferentiateLastKept(values, behind) == values

\* differentiate_signal, values[-1] = values[-2]: a series of one sample has
\* no values[-2], and the read finds what the memory in front of the array
\* holds
DifferentiateLast(values, behind) ==
    LET n == Size(values) IN
    [values EXCEPT ![n - 1] = IF n >= 2 THEN values[n - 2] ELSE behind]

\* differentiate_signal without the second loop
DifferentiateUnsmoothed(values, i) == values

\* differentiate_signal, the second loop, from the last sample down to 1
RECURSIVE DifferentiateSmooth(_, _)
DifferentiateSmooth(values, i) ==
    IF i <= 0 THEN values
    ELSE DifferentiateSmooth(
            [values EXCEPT ![i] = FMul(Half, FAdd(values[i], values[i - 1]))],
            i - 1)

\* differentiate_signal(values, dt)
differentiate_signal(values, dt, behind) ==
    DifferentiateSmooth(
        DifferentiateLast(DifferentiateForward(values, 0, dt), behind),
        Size(values) - 1)

\* integrate_signal, the loop: st is (values, i_val, half_last)
RECURSIVE IntegrateLoop(_, _, _)
IntegrateLoop(st, i, dt) ==
    IF i >= Size(st.values) THEN st.values
    ELSE LET half_next == FMul(Half, st.values[i])
             i_val == FAdd(FAdd(st.i_val, st.half_last), half_next)
         IN  IntegrateLoop([values |-> [st.values EXCEPT ![i] = FMul(i_val, dt)],
                            i_val |-> i_val, half_last |-> half_next],
                           i + 1, dt)

\* integrate_signal(values, dt)
integrate_signal(values, dt) ==
    IntegrateLoop([values |-> values, i_val |-> Zero, half_last |-> Zero], 0, dt)

\* integrate_weighted_signal, the loop: st is (values, weights, integral,
\* v_last, w_last)
RECURSIVE IntegrateWeightedLoop(_, _, _)
IntegrateWeightedLoop(st, i, dt) ==
    IF i >= Size(st.values) THEN st
    ELSE LET dt2 == FMul(dt, dt)
             idt == FDiv(One, dt)
             half_dt == FMul(Half, dt)
             half_dt2 == FMul(half_dt, half_dt)
             v_next == FMul(st.values[i], half_dt)
             w_next == FDiv(st.weights[i], half_dt2)
             w0 == FMul(st.w_last, w_next)
             w == IF FGt0(w0) THEN FDiv(w0, FAdd(st.w_last, w_next)) ELSE Zero
             v == FAdd(st.v_last, v_next)
             integral == FAdd(st.integral, v)
         IN  IntegrateWeightedLoop(
                [values |-> [st.values EXCEPT ![i] = FMul(integral, idt)],
                 weights |-> [st.weights EXCEPT ![i] = FMul(w, dt2)],
                 integral |-> integral, v_last |-> v_next, w_last |-> w_next],
                i + 1, dt)

\* integrate_weighted_signal(values, weights, dt)
integrate_weighted_signal(values, weights, dt) ==
    IntegrateWeightedLoop([values |-> values, weights |-> weights, integral |-> Zero,
                           v_last |-> Zero, w_last |-> Zero], 0, dt)

\* the sample intervals, none of them 0, and what a read in front of the
\* array may find
DtChoices == {One, R(2), FDiv(R(-1), R(2))}
BehindChoices == {Zero, R(7)}

DifferentiateSignal ==
    /\ Called
    /\ \E dt \in DtChoices :
        \E behind \in (IF Size(signal_values) >= 2 THEN {Zero} ELSE BehindChoices) :
        /\ signal_values' = differentiate_signal(signal_values, dt, behind)
        /\ call' = [op |-> "differentiate_signal", dt |-> dt]
    /\ UNCHANGED <<frame_state, signal_weights, drifts>>

IntegrateSignal ==
    /\ Called
    /\ \E dt \in DtChoices :
        /\ signal_values' = integrate_signal(signal_values, dt)
        /\ call' = [op |-> "integrate_signal", dt |-> dt]
    /\ UNCHANGED <<frame_state, signal_weights, drifts>>

IntegrateWeightedSignal ==
    /\ Called
    /\ \E dt \in DtChoices :
        \E r \in {integrate_weighted_signal(signal_values, signal_weights, dt)} :
        /\ signal_values' = r.values
        /\ signal_weights' = r.weights
        /\ call' = [op |-> "integrate_weighted_signal", dt |-> dt]
    /\ UNCHANGED <<frame_state, drifts>>

\* the weights of the series
SeriesWeightChoices == {[b \in Blocks |-> One], [b \in Blocks |-> R(b)]}

\* series of 1 to MaxSeries samples
MaxSeries == 5
SampleChoices == {R(-1), Zero, R(2)}

InitSeries ==
    /\ n_frames \in 1..MaxSeries
    /\ resolution = 1
    /\ frame_data = [f \in Rows |-> PlainFrame.data]
    /\ frame_weights = [f \in Rows |-> PlainFrame.weight]
    /\ frame_valid = [f \in Rows |-> PlainFrame.valid]
    /\ modeling_frames = [f \in Rows |-> PlainFrame.modeling]
    /\ sample_flags = [f \in Rows |-> PlainFrame.flags]
    /\ frame_dependents = [f \in Rows |-> Zero]
    /\ channel_dependents = [c \in Channels |-> Zero]
    /\ InitChannels({ZSeq(<<0>>)}, {Kind(1, 1, 1)})
    /\ signal_values \in [Blocks -> SampleChoices]
    /\ signal_weights \in SeriesWeightChoices
    /\ drifts = <<>>
    /\ atran_cache = <<>>
    /\ files = <<>>
    /\ call = NoCall
    /\ pre = Snapshot
    /\ past = <<>>
    /\ n_calls = 0

NextSeries == DifferentiateSignal \/ IntegrateSignal \/ IntegrateWeightedSignal

SpecSeries == InitSeries /\ [][NextSeries]_vars

\* the last two calls are differentiate_signal and then integrate_signal, with
\* the same dt, of a series of two samples or more
RoundTrip ==
    /\ call.op = "integrate_signal"
    /\ Len(past) > 0 /\ Earlier.call.op = "differentiate_signal"
    /\ Earlier.call.dt = call.dt
    /\ Size(signal_values) >= 2

\* what the round trip added to sample i, and the third difference of the
\* original series at i: v[i+1] - 3 v[i] + 3 v[i-1] - v[i-2]
Offset(i) == FSub(signal_values[i], Earlier.pre.signal_values[i])
ThirdDifference(i) ==
    LET v == Earlier.pre.signal_values IN
    FAdd(FSub(v[i + 1], FMul(R(3), v[i])), FSub(FMul(R(3), v[i - 1]), v[i - 2]))

\* the samples other than the first and the last
Interior == 1..(Size(signal_values) - 2)

\* C18: after differentiate_signal(v, dt) and integrate_signal(v, dt) the
\* series differs from the original by one and the same constant at every
\* sample other than the first and the last.
C18_SameConstant ==
    RoundTrip => \A i, j \in Interior : Offset(i) = Offset(j)

\* C18 as the kernels have it: from one sample to the next, neither of them
\* the first or the last, the difference to the original changes by a quarter
\* of the third difference of the original series; it is one and the same
\* constant exactly where the third differences are 0.
C18_OffsetChanges ==
    RoundTrip =>
        /\ \A i \in Interior \ {1} :
            FSub(Offset(i), Offset(i - 1)) = FDiv(ThirdDifference(i), R(4))
        /\ (\A i, j \in Interior : Offset(i) = Offset(j))
            <=> (\A i \in Interior \ {1} : FIsZero(ThirdDifference(i)))

C18_OffsetChanged ==
    /\ RoundTrip
    /\ \E i, j \in Interior : Offset(i) # Offset(j)
    /\ \E i \in Interior \ {1} : ~FIsZero(ThirdDifference(i))

----------------------------------------------------------------------------
(* Signal Covariance *)

\* frame data that is opposite to the correlated signal in channel 0
OppositeFrame == Profile(TRUE, FALSE, 1, -1, 3, 0, 0)
CovarianceProfiles == {InvalidFrame, PlainFrame, HalfFlaggedFrame, OppositeFrame}
CovarianceKinds == {Kind(1, 2, 1), Kind(1, 0, 1)}

\* finite frame data and a signal that is s, 2s, 3s, ... for s of -1, 0, 1
InitCovariance ==
    /\ InitFrames(CovarianceProfiles, CovarianceProfiles, {1}, {-1, 0, 1})
    /\ InitChannels(GainGroups, CovarianceKinds)

NextCovariance == n_calls = 0 /\ GetCovariance

SpecCovariance == InitCovariance /\ [][NextCovariance]_vars

IsCovariance == call.op = "get_covariance"

\* the samples of the channel at group index i that enter the sums
Included(i) ==
    {f \in Frames : /\ frame_valid[f]
                    /\ ~IsNaN(FrameSignal[f])
                    /\ ~FIsZero(channel_w[i])
                    /\ sample_flags[f][channel_indices[i]] = 0}

\* xs, x2 and s2 of the channel at group index i
CrossTerm(i) ==
    FSum([f \in Included(i) |->
            FMul(FMul(channel_w[i], frame_data[f][channel_indices[i]]), FrameSignal[f])])
DataTerm(i) ==
    FSum([f \in Included(i) |->
            FMul(FMul(channel_w[i], frame_data[f][channel_indices[i]]),
                 frame_data[f][channel_indices[i]])])
SignalTerm(i) ==
    FSum([f \in Included(i) |->
            FMul(FMul(channel_w[i], FrameSignal[f]), FrameSignal[f])])

\* the sum of xs^2 / (x2 * s2) over the channels of S
CovarianceOver(S) ==
    FSum([i \in S |->
            FDiv(FMul(CrossTerm(i), CrossTerm(i)), FMul(DataTerm(i), SignalTerm(i)))])

\* C19: get_covariance returns the square root of the sum of xs^2/(x2*s2)
\* over every included channel whose cross term xs is nonzero, positive or
\* negative, and a channel with a cross term of 0 causes no division by zero.
C19_CovarianceNonzero ==
    IsCovariance =>
        /\ call.c2 = CovarianceOver({i \in Group : ~FIsZero(CrossTerm(i))})
        /\ IsFinite(call.c2)

\* C19 with the channels of a positive cross term only
C19_CovariancePositive ==
    IsCovariance =>
        /\ call.c2 = CovarianceOver({i \in Group : FGt0(CrossTerm(i))})
        /\ IsFinite(call.c2)

C19_NegativeSkipped ==
    /\ IsCovariance
    /\ \E i \in Group : ~FIsZero(CrossTerm(i)) /\ ~FGt0(CrossTerm(i))
    /\ \E i \in Group : FGt0(CrossTerm(i))

C19_ZeroSkipped ==
    /\ IsCovariance
    /\ \E i \in Group : FIsZero(CrossTerm(i)) /\ FIsZero(SignalTerm(i))
    /\ \E i \in Group : FIsZero(CrossTerm(i)) /\ FGt0(FMul(DataTerm(i), SignalTerm(i)))

----------------------------------------------------------------------------
(* ATRAN cache *)

\* the ATRAN files, and the resolutions asked for
Paths == {"atran_a.fits", "atran_b.fits"}
AtranResolutions == {One, FDiv(R(3), R(2)), R(2)}

\* int(resolution)
int(r) == IF r.n >= 0 THEN r.n \div r.d ELSE -((-r.n) \div r.d)

\* str(t) of a modification time
Str(t) == ToString(t)

\* goodfile(atranfile): the file exists and can be read
goodfile(atranfile) == files[atranfile].status = "good"

\* os.path.getmtime(atranfile), an OSError for a file that does not exist
Exists(atranfile) == files[atranfile].status # "missing"
getmtime(atranfile) == files[atranfile].mtime

\* a dictionary d with d[k] = v, and with k deleted
DictSet(d, k, v) == [x \in DOMAIN d \cup {k} |-> IF x = k THEN v ELSE d[x]]
DictDel(d, k) == [x \in DOMAIN d \ {k} |-> d[x]]

\* what a call returns: None, or the tuple (filename, wv_scale, wave,
\* unsmoothed, smoothed)
NoData == [returned |-> FALSE, data |-> <<>>]
Data(t) == [returned |-> TRUE, data |-> t]

\* get_atran_from_cache(atranfile, resolution): the cache it leaves and what
\* it returns
get_atran_from_cache(atranfile, res) ==
    LET key == <<atranfile, int(res)>> IN
    IF key \notin DOMAIN atran_cache
    THEN [cache |-> atran_cache, result |-> NoData]
    ELSE IF ~goodfile(atranfile)
    THEN [cache |-> DictDel(atran_cache, key), result |-> NoData]
    ELSE LET modtime == Str(getmtime(atranfile)) IN
         IF modtime \notin DOMAIN atran_cache[key]
         THEN [cache |-> atran_cache, result |-> NoData]
         ELSE [cache |-> atran_cache, result |-> Data(atran_cache[key][modtime])]

\* store_atran_in_cache(atranfile, resolution, filename, wv_scale, wave,
\* unsmoothed, smoothed): the cache it leaves; getmtime raises for a file that
\* does not exist, after the entry of the key has been emptied
store_atran_in_cache(atranfile, res, data) ==
    LET key == <<atranfile, int(res)>>
        emptied == DictSet(atran_cache, key, <<>>)
    IN  IF ~Exists(atranfile)
        THEN [cache |-> emptied, error |-> "FileNotFoundError"]
        ELSE [cache |-> DictSet(emptied, key,
                                DictSet(<<>>, Str(getmtime(atranfile)), data)),
              error |-> "none"]

\* the number of cache calls and file changes followed
MaxSteps == 4
MaxMtime == 2

\* a call of the cache, or a change of a file: the state as it was found
Stepped ==
    /\ n_calls < MaxSteps
    /\ n_calls' = n_calls + 1
    /\ pre' = Snapshot
    /\ past' = IF n_calls = 0 THEN past ELSE Append(past, [call |-> call, pre |-> pre])

\* the state the cache neither reads nor writes
cache_outside == <<inputs, arrays, drifts>>

ClearAtranCache ==
    /\ Stepped
    /\ atran_cache' = <<>>
    /\ call' = [op |-> "clear_atran_cache"]
    /\ UNCHANGED <<cache_outside, files>>

GetAtranFromCache ==
    /\ Stepped
    /\ \E atranfile \in Paths : \E res \in AtranResolutions :
        \E r \in {get_atran_from_cache(atranfile, res)} :
        /\ atran_cache' = r.cache
        /\ call' = [op |-> "get_atran_from_cache", atranfile |-> atranfile,
                    resolution |-> res, result |-> r.result]
    /\ UNCHANGED <<cache_outside, files>>

\* the n-th step stores the tuple (atranfile, 1, n, n, (n, resolution)): the
\* data as read by that step and as smoothed to its resolution
StoreAtranInCache ==
    /\ Stepped
    /\ \E atranfile \in Paths : \E res \in AtranResolutions :
        \E data \in {<<atranfile, One, n_calls + 1, n_calls + 1, <<n_calls + 1, res>>>>} :
        \E r \in {store_atran_in_cache(atranfile, res, data)} :
        /\ atran_cache' = r.cache
        /\ call' = [op |-> "store_atran_in_cache", atranfile |-> atranfile,
                    resolution |-> res, data |-> data, error |-> r.error]
    /\ UNCHANGED <<cache_outside, files>>

\* a file is written again, removed, made unreadable or restored
ChangeFile ==
    /\ Stepped
    /\ \E atranfile \in Paths :
        \E status \in {"good", "unreadable", "missing"} : \E mtime \in 1..MaxMtime :
        /\ (status = files[atranfile].status) # (mtime = files[atranfile].mtime)
        /\ files' = [files EXCEPT ![atranfile] = [status |-> status, mtime |-> mtime]]
        /\ call' = [op |-> "change_file", atranfile |-> atranfile]
    /\ UNCHANGED <<cache_outside, atran_cache>>

\* the module as imported: an empty cache, and the files in place
InitAtran ==
    /\ NoFrames
    /\ channel_dependents = [c \in Channels |-> Zero]
    /\ InitChannels({ZSeq(<<0>>)}, {Kind(1, 1, 1)})
    /\ atran_cache = <<>>
    /\ files = [f \in Paths |-> [status |-> "good", mtime |-> 1]]
    /\ call = NoCall
    /\ pre = Snapshot
    /\ past = <<>>
    /\ n_calls = 0

NextAtran == ClearAtranCache \/ GetAtranFromCache \/ StoreAtranInCache \/ ChangeFile

SpecAtran == InitAtran /\ [][NextAtran]_vars

IsGetAtran == call.op = "get_atran_from_cache"
Key == <<call.atranfile, int(call.resolution)>>

\* the call found the key in the cache, its file good, and the modification
\* time of the file not the one recorded in the entry
FoundChanged ==
    /\ IsGetAtran
    /\ Key \in DOMAIN pre.atran_cache
    /\ pre.files[call.atranfile].status = "good"
    /\ DOMAIN pre.atran_cache[Key] # {}
    /\ Str(pre.files[call.atranfile].mtime) \notin DOMAIN pre.atran_cache[Key]

\* C20: a get_atran_from_cache call for a key in the cache whose file has a
\* modification time other than the recorded one returns None and deletes
\* the entry: after the call the key is not in the cache.
C20_ChangedEvicted ==
    FoundChanged =>
        /\ ~call.result.returned
        /\ Key \notin DOMAIN atran_cache

\* what get_atran_from_cache does have: None is returned and the stale entry
\* stays in the cache until the next store or clear
C20_ChangedKept ==
    FoundChanged =>
        /\ ~call.result.returned
        /\ atran_cache = pre.atran_cache

\* a file that is not good is evicted
C20_BadFileEvicted ==
    (/\ IsGetAtran
     /\ Key \in DOMAIN pre.atran_cache
     /\ pre.files[call.atranfile].status # "good") =>
        /\ ~call.result.returned
        /\ atran_cache = DictDel(pre.atran_cache, Key)

\* the earlier steps that stored data for the file of the last call and for
\* its resolution (exact), or for a resolution of the same key
SameResolution(r1, r2, exact) == IF exact THEN r1 = r2 ELSE int(r1) = int(r2)
Stores(exact) ==
    {i \in 1..Len(past) :
        /\ past[i].call.op = "store_atran_in_cache"
        /\ past[i].call.atranfile = call.atranfile
        /\ SameResolution(past[i].call.resolution, call.resolution, exact)}
Clears == {i \in 1..Len(past) : past[i].call.op = "clear_atran_cache"}
Latest(S) == CHOOSE i \in S : \A j \in S : j <= i

\* the data the last call returned is fresh: it is the tuple of the most
\* recent store, made since the last clear, of a file that is readable and
\* has the modification time it had at that store
Fresh(exact) ==
    /\ Stores(exact) # {}
    /\ LET store == past[Latest(Stores(exact))] IN
        /\ \A c \in Clears : c < Latest(Stores(exact))
        /\ store.call.error = "none"
        /\ pre.files[call.atranfile].status = "good"
        /\ pre.files[call.atranfile].mtime = store.pre.files[call.atranfile].mtime
        /\ call.result.data = store.call.data

\* C21: get_atran_from_cache(file, resolution) returns data only if data was
\* stored for that file and resolution since the last clear, the file is
\* readable and has the modification time of the most recent such store; the
\* data is the tuple of that store, and in every other case None is returned.
C21_Freshness == (IsGetAtran /\ call.result.returned) => Fresh(TRUE)

\* C21 for the key (file, int(resolution)) in place of the resolution
C21_FreshnessOfKey == (IsGetAtran /\ call.result.returned) => Fresh(FALSE)

C21_FreshReturned ==
    /\ IsGetAtran /\ call.result.returned
    /\ Clears # {}
    /\ Fresh(TRUE)

----------------------------------------------------------------------------
(* get_atran *)

\* gethdul(filename): the data of a file that can be read, (wave,
\* transmission), the same for as long as the file is not written again
gethdul(filename) ==
    IF goodfile(filename) THEN Data(<<getmtime(filename), getmtime(filename)>>)
    ELSE NoData

\* smoothres(wave, transmission, resolution): the transmission as smoothed to
\* that resolution
smoothres(wave, unsmoothed, res) == <<unsmoothed, res>>

\* get_atran(header, resolution, filename): the file named, or the default
\* file that the header selects where the named file is not good; the cache
\* it leaves, and the (wave, smoothed) it returns
get_atran(filename, res, default) ==
    LET used == IF goodfile(filename) THEN filename ELSE default IN
    IF used \notin Paths
    THEN [cache |-> atran_cache, used |-> used, hit |-> FALSE, result |-> NoData]
    ELSE LET cached == get_atran_from_cache(used, res) IN
         IF cached.result.returned
         THEN [cache |-> cached.cache, used |-> used, hit |-> TRUE,
               result |-> Data(<<cached.result.data[3], cached.result.data[5]>>)]
         ELSE IF ~gethdul(used).returned
         THEN [cache |-> cached.cache, used |-> used, hit |-> FALSE, result |-> NoData]
         ELSE LET data == gethdul(used).data
                  wave == data[1]
                  unsmoothed == data[2]
                  smoothed == smoothres(data[1], data[2], res)
                  key == <<used, int(res)>>
              IN  [cache |-> DictSet(cached.cache, key,
                                     DictSet(<<>>, Str(getmtime(used)),
                                             <<used, One, wave, unsmoothed, smoothed>>)),
                   used |-> used, hit |-> FALSE,
                   result |-> Data(<<wave, smoothed>>)]

\* no default file is found
NoFile == "None"

GetAtran ==
    /\ Stepped
    /\ \E filename \in Paths : \E res \in AtranResolutions :
        \E default \in Paths \cup {NoFile} :
        \E r \in {get_atran(filename, res, default)} :
        /\ atran_cache' = r.cache
        /\ call' = [op |-> "get_atran", filename |-> filename, resolution |-> res,
                    used |-> r.used, hit |-> r.hit, result |-> r.result]
    /\ UNCHANGED <<cache_outside, files>>

\* files that stay as they are, readable or not
InitGetAtran ==
    /\ NoFrames
    /\ channel_dependents = [c \in Channels |-> Zero]
    /\ InitChannels({ZSeq(<<0>>)}, {Kind(1, 1, 1)})
    /\ atran_cache = <<>>
    /\ files \in [Paths -> {[status |-> st, mtime |-> 1] : st \in {"good", "missing"}}]
    /\ call = NoCall
    /\ pre = Snapshot
    /\ past = <<>>
    /\ n_calls = 0

NextGetAtran == GetAtran

SpecGetAtran == InitGetAtran /\ [][NextGetAtran]_vars

IsGetAtranCall == call.op = "get_atran" /\ call.result.returned

\* C28: the smoothed data that a get_atran call returns were smoothed to
\* exactly the resolution of that call, cache hit or not.
C28_ResolutionServed ==
    IsGetAtranCall => call.result.data[2] = smoothres(0, call.result.data[1], call.resolution)

\* C28 for the calls that miss the cache
C28_MissServed ==
    (IsGetAtranCall /\ ~call.hit) =>
        call.result.data[2] = smoothres(0, call.result.data[1], call.resolution)

\* a cache hit serves the data of the file that is used, smoothed to a
\* resolution of the same integer part
C28_HitServed ==
    (IsGetAtranCall /\ call.hit) =>
        /\ call.result.data[1] = files[call.used].mtime
        /\ call.result.data[2][1] = files[call.used].mtime
        /\ int(call.result.data[2][2]) = int(call.resolution)

----------------------------------------------------------------------------
(* Properties of the differentiation and the integration *)

IsDifferentiate == call.op = "differentiate_signal" /\ Size(signal_values) >= 2

\* the derivative of the series v at sample i: one-sided at the two ends,
\* centered in between
Derivative(v, i, dt) ==
    LET n == Size(v) IN
    IF i = 0 THEN FDiv(FSub(v[1], v[0]), dt)
    ELSE IF i = n - 1 THEN FDiv(FSub(v[n - 1], v[n - 2]), dt)
    ELSE FDiv(FSub(v[i + 1], v[i - 1]), FMul(R(2), dt))

\* C22: differentiate_signal leaves out[0] = (v[1]-v[0])/dt, out[i] =
\* (v[i+1]-v[i-1])/(2*dt) for 0 < i < n-1 and out[n-1] = (v[n-1]-v[n-2])/dt
\* for a series v of n >= 2 samples.
C22_Differentiate ==
    IsDifferentiate =>
        \A i \in Blocks : signal_values[i] = Derivative(pre.signal_values, i, call.dt)

C22_Differentiated ==
    /\ IsDifferentiate
    /\ Size(signal_values) >= 4
    /\ \A i, j \in Blocks : i # j => signal_values[i] # signal_values[j]

----------------------------------------------------------------------------
(* Frame indices of the block loops *)

\* range(start_frame, end_frame) of a block, with start_frame = block *
\* resolution and end_frame = start_frame + resolution
BlockRange(block) == (block * Res)..(block * Res + Res - 1)

\* the blocks whose frame loop the last call entered: all of them in the
\* estimators, those of a signal value other than 0 in resync_gains, those of
\* a positive increment weight in apply_gain_increments
BlocksEntered ==
    IF IsEstimate THEN Blocks
    ELSE IF IsResync THEN {b \in Blocks : ~FIsZero(pre.signal_values[b])}
    ELSE IF IsApply THEN {b \in Blocks : ~FLe0(call.increment_weight[b])}
    ELSE {}

\* the frame indices with which the last call read frame_valid
FramesUsed == UNION {BlockRange(b) : b \in BlocksEntered}

\* C23: every frame index that get_ml_correlated, get_robust_correlated,
\* resync_gains or apply_gain_increments uses is in [0, n_frames), also where
\* n_frames is not a multiple of the resolution.
C23_InBounds == resolution >= 1 => FramesUsed \subseteq Frames

\* C23 for a number of frames that is a multiple of the resolution
C23_InBoundsFullBlocks ==
    (resolution >= 1 /\ n_frames % Res = 0) => FramesUsed \subseteq Frames

\* a call has changed frame data or dependents behind the arrays
C23_WrittenBehind ==
    \E f \in Rows \ Frames :
        \/ frame_data[f] # pre.frame_data[f]
        \/ frame_dependents[f] # pre.frame_dependents[f]

----------------------------------------------------------------------------
(* Frame temporary fields *)

\* prepare_frame_temp_fields, the loop over range(frame_valid.size): t is
\* (frame_c, frame_wc, frame_wc2); the assignments of a weight that is not
\* positive are followed by those of every other weight
RECURSIVE PrepareFrames(_, _)
PrepareFrames(t, frame) ==
    IF frame >= n_frames THEN t
    ELSE IF ~frame_valid[frame] THEN PrepareFrames(t, frame + 1)
    ELSE LET c == signal_values[frame] IN
         IF IsNaN(c)
         THEN PrepareFrames([frame_c |-> [t.frame_c EXCEPT ![frame] = Zero],
                             frame_wc |-> [t.frame_wc EXCEPT ![frame] = Zero],
                             frame_wc2 |-> [t.frame_wc2 EXCEPT ![frame] = Zero]],
                            frame + 1)
         ELSE IF modeling_frames[frame]
         THEN PrepareFrames([frame_c |-> [t.frame_c EXCEPT ![frame] = c],
                             frame_wc |-> [t.frame_wc EXCEPT ![frame] = Zero],
                             frame_wc2 |-> [t.frame_wc2 EXCEPT ![frame] = Zero]],
                            frame + 1)
         ELSE LET w == frame_weights[frame]
                  zeroed == IF FLe0(w) \/ IsNaN(w)
                            THEN [t EXCEPT !.frame_wc[frame] = Zero,
                                           !.frame_wc2[frame] = Zero]
                            ELSE t
                  wc == FMul(w, c)
              IN  PrepareFrames([frame_c |-> [zeroed.frame_c EXCEPT ![frame] = c],
                                 frame_wc |-> [zeroed.frame_wc EXCEPT ![frame] = wc],
                                 frame_wc2 |-> [zeroed.frame_wc2 EXCEPT ![frame] = FMul(wc, c)]],
                                frame + 1)

\* prepare_frame_temp_fields(signal_values, frame_weights, frame_valid,
\* frame_modeling, frame_c, frame_wc, frame_wc2)
prepare_frame_temp_fields(frame_c, frame_wc, frame_wc2) ==
    PrepareFrames([frame_c |-> frame_c, frame_wc |-> frame_wc, frame_wc2 |-> frame_wc2], 0)

\* the temporary fields as an earlier iteration left them
TempChoices == {[f \in Frames |-> R(9)], [f \in Frames |-> R(f - 1)]}

PrepareFrameTempFields ==
    /\ Called
    /\ \E before \in TempChoices :
        \E r \in {prepare_frame_temp_fields(before, before, before)} :
        call' = [op |-> "prepare_frame_temp_fields", before |-> before,
                 frame_c |-> r.frame_c, frame_wc |-> r.frame_wc,
                 frame_wc2 |-> r.frame_wc2]
    /\ UNCHANGED outside
    /\ UNCHANGED <<inputs, arrays>>

\* frames of every kind of weight, and a signal value per frame that may be NaN
TempProfiles ==
    {InvalidFrame, PlainFrame, ModelingFrame, ZeroWeightFrame, NegativeWeightFrame,
     NaNWeightFrame}
TempSignalChoices == {NaN, Zero, R(2)}

InitTemp ==
    /\ n_frames \in 0..MaxFrames
    /\ resolution = 1
    /\ \E rows \in [Rows -> TempProfiles] :
        /\ frame_data = [f \in Rows |-> rows[f].data]
        /\ frame_weights = [f \in Rows |-> rows[f].weight]
        /\ frame_valid = [f \in Rows |-> rows[f].valid]
        /\ modeling_frames = [f \in Rows |-> rows[f].modeling]
        /\ sample_flags = [f \in Rows |-> rows[f].flags]
    /\ frame_dependents = [f \in Rows |-> Zero]
    /\ channel_dependents = [c \in Channels |-> Zero]
    /\ InitChannels({ZSeq(<<0>>)}, {Kind(1, 1, 1)})
    /\ signal_values \in [Blocks -> TempSignalChoices]
    /\ signal_weights = [b \in Blocks |-> Zero]
    /\ drifts = <<>>
    /\ atran_cache = <<>>
    /\ files = <<>>
    /\ call = NoCall
    /\ pre = Snapshot
    /\ past = <<>>
    /\ n_calls = 0

NextTemp == n_calls = 0 /\ PrepareFrameTempFields

SpecTemp == InitTemp /\ [][NextTemp]_vars

IsPrepare == call.op = "prepare_frame_temp_fields"

\* frame f carries no weight into the gain fit
Weightless(f) == FIsZero(call.frame_wc[f]) /\ FIsZero(call.frame_wc2[f])

\* what the claim has for the frames of a NaN signal value, the modeling
\* frames and the invalid frames
TempOthers(f) ==
    /\ (frame_valid[f] /\ IsNaN(signal_values[f])) =>
            FIsZero(call.frame_c[f]) /\ Weightless(f)
    /\ (frame_valid[f] /\ ~IsNaN(signal_values[f]) /\ modeling_frames[f]) => Weightless(f)
    /\ ~frame_valid[f] =>
            /\ call.frame_c[f] = call.before[f]
            /\ call.frame_wc[f] = call.before[f]
            /\ call.frame_wc2[f] = call.before[f]

\* frame f is valid, not modeling, and has a signal value that is not NaN
Fitted(f) == frame_valid[f] /\ ~modeling_frames[f] /\ ~IsNaN(signal_values[f])

\* C24: after prepare_frame_temp_fields, frame_wc and frame_wc2 are 0 for
\* every valid, non-modeling frame of a non-NaN signal value whose weight is
\* not positive or NaN; all three fields are 0 for a valid frame of a NaN
\* signal value; frame_wc and frame_wc2 are 0 for a valid modeling frame;
\* invalid frames are left unchanged.
C24_TempFields ==
    IsPrepare => \A f \in Frames :
        /\ TempOthers(f)
        /\ (Fitted(f) /\ (FLe0(frame_weights[f]) \/ IsNaN(frame_weights[f]))) =>
                Weightless(f)

\* C24 as the kernel has it: every valid, non-modeling frame of a non-NaN
\* signal value has frame_wc = w * c and frame_wc2 = w * c * c, whatever its
\* weight w is
C24_TempFieldsWeighted ==
    IsPrepare => \A f \in Frames :
        /\ TempOthers(f)
        /\ Fitted(f) =>
            /\ call.frame_c[f] = signal_values[f]
            /\ call.frame_wc[f] = FMul(frame_weights[f], signal_values[f])
            /\ call.frame_wc2[f] =
                    FMul(FMul(frame_weights[f], signal_values[f]), signal_values[f])

----------------------------------------------------------------------------
(* Source filtering over the iterations *)

\* the filters a call is given: those that the call before it returned, or,
\* for the first call, initial filters with a signal filter above 0
InitialFilterChoices == {Filters(One, One), Filters(One, R(2)), Filters(Norm(1, 2), One)}
FiltersGiven ==
    IF n_calls = 0
    THEN {[cf |-> [i \in Group |-> f[i].cf], sf |-> [i \in Group |-> f[i].sf]] :
            f \in [Group -> InitialFilterChoices]}
    ELSE {[cf |-> call.new_channel_source_filtering,
           sf |-> call.new_signal_source_filtering]}

\* calculate_filtering in the iterations: the caller passes the returned
\* filters back in
RecalculateFiltering ==
    /\ Called
    /\ \E given \in FiltersGiven : \E o \in OverlapChoices :
        \E v \in [Group -> BOOLEAN] : \E n \in {Zero, R(2), R(4)} :
        \E a \in {[overlaps |-> o, channel_valid |-> v, n_parms |-> n,
                   channel_source_filtering |-> given.cf,
                   signal_source_filtering |-> given.sf]} :
        \E r \in {calculate_filtering(a)} :
            call' = [op |-> "calculate_filtering", args |-> a,
                     new_channel_source_filtering |-> r.new_channel_source_filtering,
                     new_signal_source_filtering |-> r.new_signal_source_filtering]
    /\ UNCHANGED <<inputs, arrays, outside>>

NextRefiltering == RecalculateFiltering

SpecRefiltering == InitFiltering /\ [][NextRefiltering]_vars

\* the first call, and the base value of group channel i: its initial channel
\* filter divided by its initial signal filter
First == IF Len(past) > 0 THEN past[1].call ELSE call
Base(i) ==
    FDiv(First.args.channel_source_filtering[i], First.args.signal_source_filtering[i])

\* C25: over calculate_filtering calls that are given the filters returned
\* by the call before, the channel filter of every valid channel is its base
\* value times the signal filter that the latest call returned.
C25_Undoable ==
    IsFiltering => \A i \in Group :
        call.args.channel_valid[i] =>
            call.new_channel_source_filtering[i] =
                FMul(Base(i), call.new_signal_source_filtering[i])

\* no call before the last has returned a signal filter of 0 for channel i
NeverClosed(i) ==
    /\ ~FIsZero(call.args.signal_source_filtering[i])
    /\ \A k \in 1..Len(past) :
        ~FIsZero(past[k].call.args.signal_source_filtering[i])

\* C25 for the channels that no earlier call has filtered completely
C25_UndoableWhileOpen ==
    IsFiltering => \A i \in Group :
        NeverClosed(i) =>
            call.new_channel_source_filtering[i] =
                FMul(Base(i), call.new_signal_source_filtering[i])

\* once a call has returned a signal filter of 0, the channel filter stays 0
C25_ClosedForGood ==
    IsFiltering => \A i \in Group :
        (call.args.channel_valid[i] /\ ~NeverClosed(i)) =>
            FIsZero(call.new_channel_source_filtering[i])

IsIntegrateWeighted == call.op = "integrate_weighted_signal" /\ FGt0(call.dt)

\* the trapezoid sum dt * (v[0] + ... + v[i-1] + v[i]/2)
Trapezoid(v, i, dt) ==
    FMul(dt, FAdd(FSum([k \in 0..(i - 1) |-> v[k]]), FMul(Half, v[i])))

\* C26: for every series and every dt > 0, integrate_weighted_signal leaves
\* in values what integrate_signal leaves for the same series, out[i] =
\* dt * (v[0] + ... + v[i-1] + v[i]/2), whatever the weights are.
C26_IntegratorsAgree ==
    IsIntegrateWeighted =>
        /\ signal_values = integrate_signal(pre.signal_values, call.dt)
        /\ \A i \in Blocks : signal_values[i] = Trapezoid(pre.signal_values, i, call.dt)

\* integrate_signal leaves the trapezoid sum
C26_IntegrateSignal ==
    call.op = "integrate_signal" =>
        \A i \in Blocks : signal_values[i] = Trapezoid(pre.signal_values, i, call.dt)

\* integrate_weighted_signal leaves the trapezoid sum of dt = 1, whatever dt is
C26_WeightedUnscaled ==
    IsIntegrateWeighted =>
        \A i \in Blocks : signal_values[i] = Trapezoid(pre.signal_values, i, One)

----------------------------------------------------------------------------
(* Segments of remove_drifts *)

\* the block range [start_frame // resolution, ceil(end_frame / resolution))
\* of segment d in the last remove_drifts call
SegmentBlocks(d) ==
    {b \in Blocks : /\ (d * call.n_frames) \div resolution <= b
                    /\ b < Ceil(Min((d + 1) * call.n_frames, n_frames), resolution)}

\* the weighted mean over the blocks of S is 0, or their total weight is
SegmentWeights == IF call.weights THEN signal_weights ELSE Ones(signal_values)
ZeroMean(S) ==
    LET total == FSum([b \in S |-> SegmentWeights[b]])
        sum == FSum([b \in S |-> FMul(SegmentWeights[b], signal_values[b])])
    IN  ~FIsZero(total) => FDiv(sum, total) = Zero

\* the last call is a remove_drifts call in which every segment has a frame
SegmentsRemoved ==
    /\ IsRemoveDrifts /\ resolution >= 1
    /\ \A d \in Drifts : d * call.n_frames < n_frames

\* C27: in a remove_drifts call the block ranges of different segments are
\* pairwise disjoint, also where n_frames is not a multiple of the
\* resolution, and after the call the weighted mean over the block range of
\* each segment is 0.
C27_SegmentsDisjoint ==
    SegmentsRemoved =>
        /\ \A d, e \in Drifts : d # e => SegmentBlocks(d) \cap SegmentBlocks(e) = {}
        /\ ~call.robust => \A d \in Drifts : ZeroMean(SegmentBlocks(d))

\* C27 for n_frames a multiple of the resolution
C27_SegmentsDisjointAligned ==
    (SegmentsRemoved /\ call.n_frames % resolution = 0) =>
        /\ \A d, e \in Drifts : d # e => SegmentBlocks(d) \cap SegmentBlocks(e) = {}
        /\ ~call.robust => \A d \in Drifts : ZeroMean(SegmentBlocks(d))

\* a block has lost the levels of two segments
C27_LevelledTwice ==
    /\ SegmentsRemoved
    /\ \E d, e \in Drifts : \E b \in SegmentBlocks(d) \cap SegmentBlocks(e) :
        /\ d # e
        /\ ~FIsZero(call.centers[d + 1]) /\ ~FIsZero(call.centers[e + 1])
        /\ signal_values[b] =
            FSub(FSub(pre.signal_values[b], call.centers[d + 1]), call.centers[e + 1])
    /\ \E d \in Drifts : ~call.robust /\ ~ZeroMean(SegmentBlocks(d))

----------------------------------------------------------------------------
(* Dependents of frames and channels *)

\* what a call, from the arrays before to the arrays after, added to the
\* dependents of the frames of S, and to those of all channels
FramesAdded(before, after, S) ==
    FSum([f \in S |-> FSub(after.frame_dependents[f], before.frame_dependents[f])])
ChannelsAdded(before, after) ==
    FSum([c \in Channels |->
            FSub(after.channel_dependents[c], before.channel_dependents[c])])

\* the arrays after the frame loop of block b alone, in the last
\* apply_gain_increments call
BlockApplied(b) ==
    IF FLe0(call.increment_weight[b]) THEN pre
    ELSE ApplyFrames(pre, b * Res, b * Res + Res, call.increment[b],
                     call.increment_weight[b])

\* every call so far is an apply_gain_increments call
OnlyApplied == IsApply /\ \A k \in 1..Len(past) : past[k].call.op = "apply_gain_increments"

Booked ==
    /\ FramesAdded(pre, Snapshot, Frames) = ChannelsAdded(pre, Snapshot)
    /\ \A b \in Blocks :
        FramesAdded(pre, BlockApplied(b), BlockFrames(b)) = ChannelsAdded(pre, BlockApplied(b))
    /\ OnlyApplied =>
        FSum([f \in Frames |-> frame_dependents[f]])
            = FSum([c \in Channels |-> channel_dependents[c]])

\* C29: an apply_gain_increments call adds to frame_dependents, over all
\* frames, what it adds to channel_dependents, over all channels, and so for
\* each single block; after apply_gain_increments calls only, from
\* accumulators of 0, the two sums are equal.
C29_DependentsBalanced == IsApply => Booked

\* C29 for a number of frames that is a multiple of the resolution
C29_DependentsBalancedFullBlocks == (IsApply /\ n_frames % Res = 0) => Booked

\* dependents were booked for a channel and for no frame of the integration
C29_BookedBehind ==
    /\ IsApply
    /\ FIsZero(FramesAdded(pre, Snapshot, Frames))
    /\ FGt0(ChannelsAdded(pre, Snapshot))

====
